---- MODULE Spec2Model ----
(***************************************************************************)
(* Model of the metrics package of godb-bench:                             *)
(*   - Collector and TrackedDB          (collector.go, tracked_db.go)      *)
(*   - OperationTracker, BenchmarkPlots (metrics.go, plotter.go)           *)
(*   - the statistics functions         (statistics.go)                    *)
(*                                                                         *)
(* Durations handed to the Collector are counted in ticks of 2^20 ns       *)
(* (1.048576 ms): the histogram's limit of 2^36 ns is then 2^16 ticks and  *)
(* every bucket computation, which is made of shifts, stays exact.         *)
(***************************************************************************)
EXTENDS Integers, Sequences, FiniteSets, TLC

\* ------------------------------------------------------------------ bounds
\* Calls begun on the Collector by the two workers of SpecCollector.
MaxCalls == 3
\* Calls begun by the single caller of SpecSeq.
MaxSeqCalls == 2

\* Calls begun on the OperationTracker by the two workers of SpecTracker.
MaxOps == 2
\* Calls begun on either wrapper by the two workers of SpecWrappers.
MaxWrapCalls == 2
\* The clock stops after this many ticks.
MaxTime == 1

\* Samples added to the BenchmarkPlots of SpecStats.
MaxSamples == 3
\* Resamples of one bootstrap, in place of bootstrapSamples = 100000.
NumResamples == 2

\* Samples added to the BenchmarkPlots of SpecR2: one more than the ten up to
\* which PrintStatistics does not resample R2.
MaxR2Samples == 11
\* Resamples of one R2 interval, in place of the 1000 of PrintStatistics.
R2Resamples == 2

\* Lines of measurement output captured by one FormatMetricsTable call.
MaxLines == 3
\* Tracked calls made before the table is rendered, and the ticks of the
\* clock meanwhile.
TableOps == 2
TableMaxTime == 2

\* The -p values given to one ycsb command.
MaxPropValues == 2

\* Calls begun on the OperationTracker by the two workers of SpecTrackerFair.
MaxFairOps == 2

\* Two worker threads share one Collector, or one OperationTracker.
Threads == {1, 2}

\* The five operation kinds of the Collector (readCount, updateCount, ...).
Kinds == {"read", "update", "insert", "scan", "delete"}

\* Latencies in ticks of 2^20 ns: about 1 ms, the largest value the histogram
\* records (2^36 ns - 2^20 ns, which is above the configured 60 s), and the
\* smallest whole tick it refuses (2^36 ns).
Latencies == {1, 65535, 65536}

\* The latency of the concurrent runs, where what matters is the interleaving.
RaceLatencies == {1}

\* Read-amplification factors reported by a backend.
Amps == {-1, 0, 1, 2}
RaceAmps == {0, 1, 2}

\* What a delegate ycsb.DB call returns: a result (Read and Scan only) and an
\* error.
Outcomes(k) ==
    IF k \in {"read", "scan"}
    THEN {<<"value", "nil">>, <<"nil", "err">>}
    ELSE {<<"nil", "nil">>, <<"nil", "err">>}

\* The operation labels the OperationTracker methods pass to track.
Labels == {"INSERT", "UPDATE", "READ", "SCAN", "DELETE"}

\* The labels of the tracked calls of SpecTrackerFair.
FairLabels == {"READ", "UPDATE"}

\* The kind of delegate call behind each label.
KindOf(op) ==
    CASE op = "INSERT" -> "insert"
      [] op = "UPDATE" -> "update"
      [] op = "READ" -> "read"
      [] op = "SCAN" -> "scan"
      [] op = "DELETE" -> "delete"

\* The labels and the durations (ns) of the samples SpecStats adds: half a
\* microsecond and one millisecond.
StatsLabels == {"READ"}
SampleTimes == {500, 1000000}

\* The durations (ns) of the samples SpecR2 adds: one and two microseconds.
R2SampleTimes == {1000, 2000}

\* The statistics PrintStatistics bootstraps with bootstrapResample.
StatNames == {"throughput", "mean", "stdDev", "median", "mad"}

\* One tick of the clock read by time.Now(), in nanoseconds.
TickNs == 500

AllOutcomes == UNION {Outcomes(k) : k \in Kinds}

\* ------------------------------------------------- hdrhistogram.Histogram
\* hdrhistogram.New(1, 60000000000, 2) gives unitMagnitude 0, subBucketCount
\* 256 (subBucketHalfCountMagnitude 7), 29 buckets (256 * 2^28 = 2^36 is the
\* first power of two not below 60e9) and countsLen = (29 + 1) * 128.
TickShift == 20
SubBucketHalfCountMagnitude == 7
SubBucketHalfCount == 128
CountsLen == 3840

RECURSIVE bitLen(_)
bitLen(v) == IF v = 0 THEN 0 ELSE 1 + bitLen(v \div 2)

RECURSIVE Pow2(_)
Pow2(n) == IF n = 0 THEN 1 ELSE 2 * Pow2(n - 1)

\* getBucketIndex(v) = bitLen(v | subBucketMask) - unitMagnitude -
\* (subBucketHalfCountMagnitude + 1), for v = ticks * 2^20 ns.
getBucketIndex(ticks) ==
    IF ticks = 0 THEN 0
    ELSE bitLen(ticks) + TickShift - (SubBucketHalfCountMagnitude + 1)

\* getSubBucketIdx(v, idx) = v >> (idx + unitMagnitude).
getSubBucketIdx(ticks, bucketIdx) ==
    IF bucketIdx >= TickShift
    THEN ticks \div Pow2(bucketIdx - TickShift)
    ELSE ticks * Pow2(TickShift - bucketIdx)

\* Fault model: a latency the histogram cannot hold is entered as the largest
\* one it can.
countsIndexClamped(ticks) ==
    LET held == IF ticks > 65535 THEN 65535 ELSE ticks
        bucketIdx == getBucketIndex(held)
        subBucketIdx == getSubBucketIdx(held, bucketIdx)
    IN  (bucketIdx + 1) * SubBucketHalfCount + (subBucketIdx - SubBucketHalfCount)

\* countsIndexFor(v): bucketBaseIdx + offsetInBucket.
countsIndexFor(ticks) ==
    LET bucketIdx == getBucketIndex(ticks)
        subBucketIdx == getSubBucketIdx(ticks, bucketIdx)
    IN  (bucketIdx + 1) * SubBucketHalfCount + (subBucketIdx - SubBucketHalfCount)

\* Fault model: a histogram that refuses what is above the configured highest
\* value, 60e9 ns (57220 ticks), instead of what falls outside its counts.
RecordableToConfigured(ticks) == ticks <= 57220

\* RecordValue fails (and records nothing) when the index is outside counts.
Recordable(ticks) ==
    LET idx == countsIndexFor(ticks) IN idx >= 0 /\ idx < CountsLen

\* The counts slots the latencies of the model can fall in.
Slots == {countsIndexFor(l) : l \in {x \in Latencies : Recordable(x)}}

EmptyHistogram == [counts |-> [i \in Slots |-> 0], totalCount |-> 0]

\* The first latency the histogram refuses: 2^36 ns, in ticks.
HistogramLimit == 65536

\* The highest trackable value the histograms are made for: 60e9 ns, in whole
\* ticks.
HighestTrackableValue == 57220

\* Histogram.TotalCount()
TotalCount(h) == h.totalCount

\* ------------------------------------------------------------------- state
VARIABLES
    count,          \* Collector.readCount .. deleteCount, by kind
    latencyHist,    \* Collector.readLatency .. deleteLatency, by kind
    readAmpCount,   \* Collector.readAmpCount
    readAmpSum,     \* Collector.readAmpSum
    summary,        \* what the last PrintSummary printed about amplification
    cpc,            \* position of each thread in its Collector call
    ccall,          \* the call each thread is in: fn, kind, latency, readAmp
    creg,           \* value a thread has loaded and not yet used
    dret,           \* what the delegate returned to TrackedDB, by thread
    lastRet,        \* what the last wrapper call to return handed back
    pre,            \* the Collector as it was when the thread's call began,
                    \* kept while the call overlaps no other call
    begun,          \* calls begun, over all threads
    returned,       \* Record calls that have returned, by kind
    accepted,       \* those of them whose latency was below 2^36 ns
    ampCalls,       \* RecordReadWithAmp calls returned with readAmp > 0
    ampTotal        \* sum of the readAmp of those calls

\* Everything of the Collector side but the count of calls begun and the last
\* value returned, which both wrappers write.
cstate == <<count, latencyHist, readAmpCount, readAmpSum, summary, cpc, ccall,
            creg, dret, pre, returned, accepted, ampCalls, ampTotal>>

cvars == <<count, latencyHist, readAmpCount, readAmpSum, summary, cpc, ccall,
           creg, dret, lastRet, pre, begun, returned, accepted, ampCalls,
           ampTotal>>

VARIABLES
    now,            \* the clock, in ticks
    mu,             \* OperationTracker.mu: the thread holding it, or 0
    timings,        \* OperationTracker.timings: label -> OperationTiming
    samples,        \* BenchmarkPlots.samples: label -> sequence of SampleData
    sampleCounters, \* BenchmarkPlots.sampleCounters: label -> count
    tpc,            \* position of each thread in its OperationTracker call
    tcall,          \* the call each thread is in: op, start, elapsed
    tdret,          \* what the delegate returned to the tracker, by thread
    completed       \* tracked calls that have returned, by label

tvars == <<now, mu, timings, samples, sampleCounters, tpc, tcall, tdret,
           completed>>

VARIABLES
    boot,           \* the bootstrapResample call in progress; for R2, with the
                    \* pairs the regression of the last resample was made on
    result          \* what the last statistics function returned

svars == <<boot, result>>

VARIABLES
    fpc,            \* position of the main goroutine in FormatMetricsTable
    output,         \* the lines captured from measurement.Output()
    timingData,     \* the labels whose *OperationTiming was copied, each with
                    \* the timing the pointer led to when it was copied
    scanned,        \* lines the scanner has returned so far
    rows,           \* rows of the operations other than TOTAL
    totalRow,       \* the row of TOTAL, or the empty string
    printed         \* the table rows written to the real stdout

fvars == <<fpc, output, timingData, scanned, rows, totalRow, printed>>

VARIABLES
    ppc,            \* position of the caller in GeneratePlots
    todo,           \* labels the range over bp.samples has not visited yet
    files,          \* names of the files in the output directory
    warnings,       \* labels a "Warning: failed to generate plot" was printed for
    pret            \* what GeneratePlots returned

pvars == <<ppc, todo, files, warnings, pret>>

VARIABLES
    opc,            \* position of the ycsb command in its Run function
    flags,          \* the command and its -P, -p and -w arguments
    props,          \* the *properties.Properties being built
    nextValue,      \* index of the next -p value to set
    effective       \* the properties the workload and the DB were created with

ovars == <<opc, flags, props, nextValue, effective>>

xvars == <<fvars, pvars, ovars>>

vars == <<cvars, tvars, svars, xvars>>

NoCall == [fn |-> "none", kind |-> "none", latency |-> 0, readAmp |-> 0]
NoRet == <<"none", "none">>
NoSummary == [printed |-> FALSE, shown |-> FALSE, sum |-> 0, n |-> 0]
NoPre == [count |-> << >>, latencyHist |-> << >>, readAmpCount |-> 0,
          readAmpSum |-> 0]

\* The fields of the Collector that Record calls write.
Snapshot == [count |-> count, latencyHist |-> latencyHist,
             readAmpCount |-> readAmpCount, readAmpSum |-> readAmpSum]

\* NewCollector: five empty histograms, all counters zero.
NewCollector ==
    /\ count = [k \in Kinds |-> 0]
    /\ latencyHist = [k \in Kinds |-> EmptyHistogram]
    /\ readAmpCount = 0
    /\ readAmpSum = 0

CollectorInit ==
    /\ NewCollector
    /\ summary = NoSummary
    /\ cpc = [t \in Threads |-> "idle"]
    /\ ccall = [t \in Threads |-> NoCall]
    /\ creg = [t \in Threads |-> 0]
    /\ dret = [t \in Threads |-> NoRet]
    /\ lastRet = NoRet
    /\ pre = [t \in Threads |-> NoPre]
    /\ begun = 0
    /\ returned = [k \in Kinds |-> 0]
    /\ accepted = [k \in Kinds |-> 0]
    /\ ampCalls = 0
    /\ ampTotal = 0

NoOp == [op |-> "none", start |-> 0, elapsed |-> 0]

\* NewOperationTracker and NewBenchmarkPlots: empty maps. A Go map gives the
\* zero value for a missing key, so samples and sampleCounters are total here.
NewOperationTracker ==
    /\ mu = 0
    /\ timings = [op \in {} |-> 0]
    /\ samples = [op \in Labels |-> << >>]
    /\ sampleCounters = [op \in Labels |-> 0]

TrackerInit ==
    /\ NewOperationTracker
    /\ now = 0
    /\ tpc = [t \in Threads |-> "idle"]
    /\ tcall = [t \in Threads |-> NoOp]
    /\ tdret = [t \in Threads |-> NoRet]
    /\ completed = [op \in Labels |-> 0]

NoBoot == [stat |-> "none", op |-> "none", estimate |-> <<0, 1>>,
           bootstrapStats |-> << >>, pairs |-> << >>]
NoResult == [fn |-> "none"]

StatsInit ==
    /\ boot = NoBoot
    /\ result = NoResult

\* Before FormatMetricsTable is called nothing is captured or printed.
TableInit ==
    /\ fpc = "idle"
    /\ output = << >>
    /\ timingData = << >>
    /\ scanned = 0
    /\ rows = << >>
    /\ totalRow = ""
    /\ printed = << >>

\* Before GeneratePlots is called the output directory holds no plot.
PlotsInit ==
    /\ ppc = "idle"
    /\ todo = {}
    /\ files = {}
    /\ warnings = {}
    /\ pret = "none"

NoProperties == << >>
\* propertyFile == "": no -P flag was given.
NoFile == [named |-> FALSE, data |-> NoProperties]
NoFlags == [cmd |-> "none", propertyFile |-> NoFile, propertyValues |-> << >>,
            workloadFile |-> NoProperties]

\* Before a command runs no property is set.
CommandInit ==
    /\ opc = "idle"
    /\ flags = NoFlags
    /\ props = NoProperties
    /\ nextValue = 1
    /\ effective = NoProperties

Init ==
    /\ CollectorInit
    /\ TrackerInit
    /\ StatsInit
    /\ TableInit
    /\ PlotsInit
    /\ CommandInit

Idle(t) == cpc[t] = "idle"

\* A call begins: the thread leaves idle with its arguments.
Begin(t, c, pc, budget) ==
    /\ Idle(t)
    /\ begun < budget
    /\ begun' = begun + 1
    /\ ccall' = [ccall EXCEPT ![t] = c]
    /\ cpc' = [cpc EXCEPT ![t] = pc]
    /\ pre' = [u \in Threads |->
                  IF u = t /\ \A o \in Threads : Idle(o) THEN Snapshot ELSE NoPre]
    /\ lastRet' = NoRet
    /\ UNCHANGED <<xvars, tvars, svars, dret, count, latencyHist, readAmpCount, readAmpSum, summary, creg,
                   returned, accepted, ampCalls, ampTotal>>

\* Fault model: the amplification is counted whenever it is not zero.
AmpNonZero(readAmp) == readAmp # 0

\* The condition of collector.go line 57.
AmpCounted(readAmp) == readAmp > 0

\* Where a call goes once RecordRead is over: RecordReadWithAmp adds to the
\* amplification counters only if readAmp > 0.
AfterRecord(c) ==
    IF c.fn = "RecordReadWithAmp" /\ AmpCounted(c.readAmp)
    THEN "ampCount" ELSE "return"

\* A thread calls RecordRead/RecordUpdate/RecordInsert/RecordScan/RecordDelete.
CallRecord(t, k, l, budget) ==
    Begin(t, [fn |-> "Record", kind |-> k, latency |-> l, readAmp |-> 0],
          "countAdd", budget)

\* A thread calls RecordReadWithAmp(latency, readAmp), which calls RecordRead.
CallRecordReadWithAmp(t, l, a, budget) ==
    Begin(t, [fn |-> "RecordReadWithAmp", kind |-> "read", latency |-> l,
              readAmp |-> a], "countAdd", budget)

\* A thread calls TrackedDB.Read/Scan/Update/Insert/Delete: start := time.Now()
\* and the delegate call begins.
TrackedDBCall(t, k, budget) ==
    Begin(t, [fn |-> "TrackedDB", kind |-> k, latency |-> 0, readAmp |-> 0],
          "delegate", budget)

\* A thread calls PrintProgress, which reads startTime only, and prints.
PrintProgress(t, budget) ==
    Begin(t, [fn |-> "PrintProgress", kind |-> "none", latency |-> 0,
              readAmp |-> 0], "return", budget)

\* A thread calls PrintSummary.
CallPrintSummary(t, budget) ==
    Begin(t, [fn |-> "PrintSummary", kind |-> "none", latency |-> 0,
              readAmp |-> 0], "loadAmpCount", budget)

\* The delegate returns (result, err) after any time; time.Since(start) is the
\* latency handed to the Collector.
DelegateReturn(t, out, l) ==
    /\ cpc[t] = "delegate"
    /\ out \in Outcomes(ccall[t].kind)
    /\ dret' = [dret EXCEPT ![t] = out]
    /\ ccall' = [ccall EXCEPT ![t].latency = l]
    /\ cpc' = [cpc EXCEPT ![t] = "countAdd"]
    /\ UNCHANGED <<xvars, tvars, svars, count, latencyHist, readAmpCount, readAmpSum, summary, creg,
                   lastRet, pre, begun, returned, accepted, ampCalls, ampTotal>>

\* Fault model: every kind is counted as a read.
CounterOfRead(k) == "read"

\* The counter that Record<kind> adds to.
CounterOf(k) == k

\* c.<kind>Count.Add(1), one atomic step; then RecordValue computes the slot of
\* the value and fails, recording nothing, if the slot is outside counts.
CountAdd(t) ==
    /\ cpc[t] = "countAdd"
    /\ count' = [count EXCEPT ![CounterOf(ccall[t].kind)] = @ + 1]
    /\ cpc' = [cpc EXCEPT ![t] =
                  IF Recordable(ccall[t].latency)
                  THEN "loadCounts" ELSE AfterRecord(ccall[t])]
    /\ UNCHANGED <<xvars, tvars, svars, latencyHist, readAmpCount, readAmpSum, summary, ccall, creg,
                   dret, lastRet, pre, begun, returned, accepted, ampCalls, ampTotal>>

\* h.counts[idx] += n is a plain load ...
LoadCounts(t) ==
    /\ cpc[t] = "loadCounts"
    /\ creg' = [creg EXCEPT ![t] =
                   latencyHist[ccall[t].kind].counts[countsIndexFor(ccall[t].latency)]]
    /\ cpc' = [cpc EXCEPT ![t] = "storeCounts"]
    /\ UNCHANGED <<xvars, tvars, svars, count, latencyHist, readAmpCount, readAmpSum, summary, ccall,
                   dret, lastRet, pre, begun, returned, accepted, ampCalls, ampTotal>>

\* ... and a plain store.
StoreCounts(t) ==
    /\ cpc[t] = "storeCounts"
    /\ latencyHist' = [latencyHist EXCEPT
           ![ccall[t].kind].counts[countsIndexFor(ccall[t].latency)] = creg[t] + 1]
    /\ cpc' = [cpc EXCEPT ![t] = "loadTotal"]
    /\ creg' = [creg EXCEPT ![t] = 0]
    /\ UNCHANGED <<xvars, tvars, svars, count, readAmpCount, readAmpSum, summary, ccall, dret, lastRet,
                   pre, begun, returned, accepted, ampCalls, ampTotal>>

\* h.totalCount += n: a plain load ...
LoadTotal(t) ==
    /\ cpc[t] = "loadTotal"
    /\ creg' = [creg EXCEPT ![t] = latencyHist[ccall[t].kind].totalCount]
    /\ cpc' = [cpc EXCEPT ![t] = "storeTotal"]
    /\ UNCHANGED <<xvars, tvars, svars, count, latencyHist, readAmpCount, readAmpSum, summary, ccall,
                   dret, lastRet, pre, begun, returned, accepted, ampCalls, ampTotal>>

\* ... and a plain store; RecordValue returns nil, which the caller drops.
StoreTotal(t) ==
    /\ cpc[t] = "storeTotal"
    /\ latencyHist' = [latencyHist EXCEPT
           ![ccall[t].kind].totalCount = creg[t] + 1]
    /\ cpc' = [cpc EXCEPT ![t] = AfterRecord(ccall[t])]
    /\ creg' = [creg EXCEPT ![t] = 0]
    /\ UNCHANGED <<xvars, tvars, svars, count, readAmpCount, readAmpSum, summary, ccall, dret, lastRet,
                   pre, begun, returned, accepted, ampCalls, ampTotal>>

\* c.readAmpCount.Add(1)
AmpCountAdd(t) ==
    /\ cpc[t] = "ampCount"
    /\ readAmpCount' = readAmpCount + 1
    /\ cpc' = [cpc EXCEPT ![t] = "ampSum"]
    /\ UNCHANGED <<xvars, tvars, svars, count, latencyHist, readAmpSum, summary, ccall, creg, dret,
                   lastRet, pre, begun, returned, accepted, ampCalls, ampTotal>>

\* Fault model: the sum grows by one per call, not by the factor.
AmpAddedOne(readAmp) == 1

\* The amount c.readAmpSum.Add receives: uint64(readAmp).
AmpAdded(readAmp) == readAmp

\* c.readAmpSum.Add(uint64(readAmp))
AmpSumAdd(t) ==
    /\ cpc[t] = "ampSum"
    /\ readAmpSum' = readAmpSum + AmpAdded(ccall[t].readAmp)
    /\ cpc' = [cpc EXCEPT ![t] = "return"]
    /\ UNCHANGED <<xvars, tvars, svars, count, latencyHist, readAmpCount, ccall, creg, dret, lastRet,
                   summary, pre, begun, returned, accepted, ampCalls, ampTotal>>

\* PrintSummary: readAmpCount := c.readAmpCount.Load()
LoadAmpCount(t) ==
    /\ cpc[t] = "loadAmpCount"
    /\ creg' = [creg EXCEPT ![t] = readAmpCount]
    /\ cpc' = [cpc EXCEPT ![t] = "loadAmpSum"]
    /\ UNCHANGED <<xvars, tvars, svars, count, latencyHist, readAmpCount, readAmpSum, summary, ccall,
                   dret, lastRet, pre, begun, returned, accepted, ampCalls, ampTotal>>

\* The "Avg Read Amplification" line: printed only if readAmpCount > 0, as
\* readAmpSum / readAmpCount (kept here as the pair sum, n).
SummaryOf(n, sum) ==
    [printed |-> TRUE, shown |-> n > 0, sum |-> IF n > 0 THEN sum ELSE 0,
     n |-> IF n > 0 THEN n ELSE 0]

\* PrintSummary: readAmpSum := c.readAmpSum.Load(), then the summary is printed.
LoadAmpSum(t) ==
    /\ cpc[t] = "loadAmpSum"
    /\ summary' = SummaryOf(creg[t], readAmpSum)
    /\ creg' = [creg EXCEPT ![t] = 0]
    /\ cpc' = [cpc EXCEPT ![t] = "return"]
    /\ UNCHANGED <<xvars, tvars, svars, count, latencyHist, readAmpCount, readAmpSum, ccall, dret,
                   lastRet, pre, begun, returned, accepted, ampCalls, ampTotal>>

\* What a TrackedDB method hands back: return result, err.
TrackedDBResult(d) == d

IsRecord(c) == c.fn \in {"Record", "RecordReadWithAmp", "TrackedDB"}

\* The call returns; a TrackedDB method returns the delegate's result and error.
Return(t) ==
    /\ cpc[t] = "return"
    /\ lastRet' = IF ccall[t].fn = "TrackedDB" THEN TrackedDBResult(dret[t])
                  ELSE lastRet
    /\ dret' = [dret EXCEPT ![t] = NoRet]
    /\ returned' = IF IsRecord(ccall[t])
                   THEN [returned EXCEPT ![ccall[t].kind] = @ + 1]
                   ELSE returned
    /\ accepted' = IF IsRecord(ccall[t]) /\ ccall[t].latency < HistogramLimit
                   THEN [accepted EXCEPT ![ccall[t].kind] = @ + 1]
                   ELSE accepted
    /\ ampCalls' = IF ccall[t].fn = "RecordReadWithAmp" /\ ccall[t].readAmp > 0
                   THEN ampCalls + 1 ELSE ampCalls
    /\ ampTotal' = IF ccall[t].fn = "RecordReadWithAmp" /\ ccall[t].readAmp > 0
                   THEN ampTotal + ccall[t].readAmp ELSE ampTotal
    /\ ccall' = [ccall EXCEPT ![t] = NoCall]
    /\ pre' = [pre EXCEPT ![t] = NoPre]
    /\ cpc' = [cpc EXCEPT ![t] = "idle"]
    /\ UNCHANGED <<xvars, tvars, svars, count, latencyHist, readAmpCount, readAmpSum, summary, creg,
                   begun>>

\* The steps of a Record<kind> call once begun.
RecordStep(t) ==
    \/ CountAdd(t)
    \/ LoadCounts(t)
    \/ StoreCounts(t)
    \/ LoadTotal(t)
    \/ StoreTotal(t)
    \/ Return(t)

\* The steps of any Collector call once begun.
CollectorStep(t) ==
    \/ RecordStep(t)
    \/ AmpCountAdd(t)
    \/ AmpSumAdd(t)
    \/ LoadAmpCount(t)
    \/ LoadAmpSum(t)

\* Two workers call the Collector concurrently.
CollectorNext ==
    \E t \in Threads :
        \/ \E k \in Kinds, l \in RaceLatencies : CallRecord(t, k, l, MaxCalls)
        \/ \E l \in RaceLatencies, a \in RaceAmps :
               CallRecordReadWithAmp(t, l, a, MaxCalls)
        \/ PrintProgress(t, MaxCalls)
        \/ CallPrintSummary(t, MaxCalls)
        \/ CollectorStep(t)

SpecCollector == Init /\ [][CollectorNext]_vars

\* One caller uses the Collector and the TrackedDB wrapper, one call at a time.
SeqNext ==
    \/ \E k \in Kinds, l \in Latencies : CallRecord(1, k, l, MaxSeqCalls)
    \/ \E l \in Latencies, a \in Amps :
           CallRecordReadWithAmp(1, l, a, MaxSeqCalls)
    \/ \E k \in Kinds : TrackedDBCall(1, k, MaxSeqCalls)
    \/ \E out \in AllOutcomes, l \in Latencies : DelegateReturn(1, out, l)
    \/ PrintProgress(1, MaxSeqCalls)
    \/ CallPrintSummary(1, MaxSeqCalls)
    \/ CollectorStep(1)

SpecSeq == Init /\ [][SeqNext]_vars

\* ------------------------------------------- OperationTracker (metrics.go)
TIdle(t) == tpc[t] = "idle"

\* The clock advances, up to a limit.
TickTo(limit) ==
    /\ now < limit
    /\ now' = now + 1
    /\ UNCHANGED <<xvars, cvars, svars, mu, timings, samples, sampleCounters, tpc, tcall,
                   tdret, lastRet, completed>>

\* A thread calls OperationTracker.Insert/Update/Read/Scan/Delete:
\* start := time.Now() and the delegate call begins.
TrackerCall(t, op, budget) ==
    /\ TIdle(t)
    /\ Idle(t)
    /\ begun < budget
    /\ begun' = begun + 1
    /\ tcall' = [tcall EXCEPT ![t] = [op |-> op, start |-> now, elapsed |-> 0]]
    /\ tpc' = [tpc EXCEPT ![t] = "delegate"]
    /\ lastRet' = NoRet
    /\ UNCHANGED <<xvars, cstate, svars, tdret, now, mu, timings, samples, sampleCounters, completed>>

Tick == TickTo(MaxTime)

\* time.Since(start), a time.Duration in nanoseconds.
Since(start) == (now - start) * TickNs

\* The delegate returns, after any time; track(op, start) is entered and
\* computes elapsed := time.Since(start) before it asks for the lock.
TrackEnter(t, out) ==
    /\ tpc[t] = "delegate"
    /\ out \in Outcomes(KindOf(tcall[t].op))
    /\ tdret' = [tdret EXCEPT ![t] = out]
    /\ tcall' = [tcall EXCEPT ![t].elapsed = Since(tcall[t].start)]
    /\ tpc' = [tpc EXCEPT ![t] = "lock"]
    /\ UNCHANGED <<xvars, cstate, svars, now, mu, timings, samples, sampleCounters, lastRet, completed,
                   begun>>

\* Fault model: a lock that does not wait for its holder.
LockAnyway(t) ==
    /\ tpc[t] = "lock"
    /\ mu' = t
    /\ tpc' = [tpc EXCEPT ![t] = "timing"]
    /\ UNCHANGED <<xvars, cstate, svars, now, timings, samples, sampleCounters, tcall, tdret,
                   lastRet, completed, begun>>

\* ot.mu.Lock()
Lock(t) ==
    /\ tpc[t] = "lock"
    /\ mu = 0
    /\ mu' = t
    /\ tpc' = [tpc EXCEPT ![t] = "timing"]
    /\ UNCHANGED <<xvars, cstate, svars, now, timings, samples, sampleCounters, tcall, tdret, lastRet,
                   completed, begun>>

\* Fault model: every call starts the entry of its label anew.
TimingOfFresh(tm, op, start) == [Count |-> 0, TotalTime |-> 0, StartTime |-> start]

\* The entry of timings for op, created on first use with StartTime: start.
TimingOf(tm, op, start) ==
    IF op \in DOMAIN tm THEN tm[op]
    ELSE [Count |-> 0, TotalTime |-> 0, StartTime |-> start]

\* Fault model: the elapsed time is taken once the lock is held.
UpdateTimingRemeasured(t) ==
    /\ tpc[t] = "timing"
    /\ LET op == tcall[t].op
           old == TimingOf(timings, op, tcall[t].start)
           new == [old EXCEPT !.Count = @ + 1,
                              !.TotalTime = @ + Since(tcall[t].start)]
       IN  timings' = [o \in DOMAIN timings \cup {op} |->
                          IF o = op THEN new ELSE timings[o]]
    /\ tpc' = [tpc EXCEPT ![t] = "addSample"]
    /\ UNCHANGED <<xvars, cstate, svars, now, mu, samples, sampleCounters, tcall, tdret, lastRet,
                   completed, begun>>

\* ot.timings[op].Count++ ; ot.timings[op].TotalTime += elapsed
UpdateTiming(t) ==
    /\ tpc[t] = "timing"
    /\ LET op == tcall[t].op
           old == TimingOf(timings, op, tcall[t].start)
           new == [old EXCEPT !.Count = @ + 1,
                              !.TotalTime = @ + tcall[t].elapsed]
       IN  timings' = [o \in DOMAIN timings \cup {op} |->
                          IF o = op THEN new ELSE timings[o]]
    /\ tpc' = [tpc EXCEPT ![t] = "addSample"]
    /\ UNCHANGED <<xvars, cstate, svars, now, mu, samples, sampleCounters, tcall, tdret, lastRet,
                   completed, begun>>

\* Fault model: the sample takes the counter's value before the increment.
AddSampleBeforeCount(operation, totalTime) ==
    /\ sampleCounters' = [sampleCounters EXCEPT ![operation] = @ + 1]
    /\ samples' = [samples EXCEPT ![operation] =
           Append(@, [SampleIndex |-> sampleCounters[operation],
                      TotalTime |-> totalTime])]

\* Fault model: the new sample is put in front of the stored ones.
AddSampleInFront(operation, totalTime) ==
    /\ sampleCounters' = [sampleCounters EXCEPT ![operation] = @ + 1]
    /\ samples' = [samples EXCEPT ![operation] =
           <<[SampleIndex |-> sampleCounters'[operation],
              TotalTime |-> totalTime]>> \o @]

\* BenchmarkPlots.AddSample(operation, totalTime)
AddSample(operation, totalTime) ==
    /\ sampleCounters' = [sampleCounters EXCEPT ![operation] = @ + 1]
    /\ samples' = [samples EXCEPT ![operation] =
           Append(@, [SampleIndex |-> sampleCounters'[operation],
                      TotalTime |-> totalTime])]

\* track: ot.plots.AddSample(op, elapsed)
TrackAddSample(t) ==
    /\ tpc[t] = "addSample"
    /\ AddSample(tcall[t].op, tcall[t].elapsed)
    /\ tpc' = [tpc EXCEPT ![t] = "unlock"]
    /\ UNCHANGED <<xvars, cstate, svars, now, mu, timings, tcall, tdret, lastRet, completed, begun>>

\* Fault model: the wrapper swallows the delegate's error.
ResultWithoutError(d) == <<d[1], "nil">>

\* What an OperationTracker method hands back: return result, err.
TrackerResult(d) == d

\* Fault model: track returns without releasing the lock.
ReturnLocked(t) ==
    /\ tpc[t] = "unlock"
    /\ lastRet' = TrackerResult(tdret[t])
    /\ tdret' = [tdret EXCEPT ![t] = NoRet]
    /\ completed' = [completed EXCEPT ![tcall[t].op] = @ + 1]
    /\ tcall' = [tcall EXCEPT ![t] = NoOp]
    /\ tpc' = [tpc EXCEPT ![t] = "idle"]
    /\ UNCHANGED <<xvars, cstate, svars, now, mu, timings, samples, sampleCounters, begun>>

\* The deferred ot.mu.Unlock(); track returns and the method returns the
\* delegate's result and error.
Unlock(t) ==
    /\ tpc[t] = "unlock"
    /\ mu' = 0
    /\ lastRet' = TrackerResult(tdret[t])
    /\ tdret' = [tdret EXCEPT ![t] = NoRet]
    /\ completed' = [completed EXCEPT ![tcall[t].op] = @ + 1]
    /\ tcall' = [tcall EXCEPT ![t] = NoOp]
    /\ tpc' = [tpc EXCEPT ![t] = "idle"]
    /\ UNCHANGED <<xvars, cstate, svars, now, timings, samples, sampleCounters, begun>>

\* The steps of a tracked call once begun.
TrackerStep(t) ==
    \/ \E out \in AllOutcomes : TrackEnter(t, out)
    \/ Lock(t)
    \/ UpdateTiming(t)
    \/ TrackAddSample(t)
    \/ Unlock(t)

\* Two workers call the OperationTracker concurrently.
TrackerNext ==
    \/ Tick
    \/ \E t \in Threads :
        \/ \E op \in Labels : TrackerCall(t, op, MaxOps)
        \/ TrackerStep(t)

SpecTracker == Init /\ [][TrackerNext]_vars

\* The scheduler runs every goroutine that can run, and a sync.Mutex hands the
\* lock to a goroutine that keeps waiting for it (starvation mode). Nothing
\* is assumed of the delegate: its call may never return.
TrackerFairness ==
    \A t \in Threads :
        /\ SF_vars(Lock(t))
        /\ WF_vars(UpdateTiming(t))
        /\ WF_vars(TrackAddSample(t))
        /\ WF_vars(Unlock(t))

\* Two workers make tracked calls while the clock stands still: whether a
\* call completes does not depend on the time it measures.
FairNext ==
    \E t \in Threads :
        \/ \E op \in FairLabels : TrackerCall(t, op, MaxFairOps)
        \/ TrackerStep(t)

SpecTrackerFair == Init /\ [][FairNext]_vars /\ TrackerFairness

\* Two workers call through either wrapper, TrackedDB or OperationTracker. The
\* clock stands still here: nothing a wrapper returns depends on it.
WrappersNext ==
    \E t \in Threads :
        \/ \E k \in Kinds : TIdle(t) /\ TrackedDBCall(t, k, MaxWrapCalls)
        \/ \E out \in AllOutcomes, l \in RaceLatencies : DelegateReturn(t, out, l)
        \/ RecordStep(t)
        \/ \E op \in Labels : TrackerCall(t, op, MaxWrapCalls)
        \/ TrackerStep(t)

SpecWrappers == Init /\ [][WrappersNext]_vars

\* ------------------------------------------------ statistics (statistics.go)
\* A float64 is kept as an exact fraction <<n, d>>, d >= 0, in lowest terms;
\* <<1, 0>> is +Inf and <<0, 0>> is NaN, as Go's float division gives them. An
\* irrational square root is kept as <<n, d, 2>>, the root of n / d. Rounding
\* is left out: the values of the model are small integers and their ratios.
Abs(x) == IF x < 0 THEN -x ELSE x

RECURSIVE GCD(_, _)
GCD(a, b) == IF b = 0 THEN a ELSE GCD(b, a % b)

Sign(x) == IF x > 0 THEN 1 ELSE IF x < 0 THEN -1 ELSE 0

Rat(n, d) ==
    IF d = 0 THEN <<Sign(n), 0>>
    ELSE LET g == GCD(Abs(n), Abs(d))
             sg == IF d < 0 THEN -1 ELSE 1
         IN  <<sg * (n \div g), sg * (d \div g)>>

Zero == <<0, 1>>
One == <<1, 1>>
Float(i) == <<i, 1>>

RatAdd(a, b) == Rat(a[1] * b[2] + b[1] * a[2], a[2] * b[2])
RatSub(a, b) == Rat(a[1] * b[2] - b[1] * a[2], a[2] * b[2])
RatMul(a, b) == Rat(a[1] * b[1], a[2] * b[2])
RatDiv(a, b) == Rat(a[1] * b[2], a[2] * b[1])
RatAbs(a) == <<Abs(a[1]), a[2]>>
RatLess(a, b) == a[1] * b[2] < b[1] * a[2]
RatLeq(a, b) == a[1] * b[2] <= b[1] * a[2]

\* The integer square root of n, or -1 if n is no perfect square.
RECURSIVE RootIn(_, _, _)
RootIn(n, lo, hi) ==
    IF lo > hi THEN -1
    ELSE LET mid == (lo + hi) \div 2 IN
         IF mid * mid = n THEN mid
         ELSE IF mid * mid < n THEN RootIn(n, mid + 1, hi)
         ELSE RootIn(n, lo, mid - 1)

IntRoot(n, r) == RootIn(n, r, IF n < 46340 THEN n ELSE 46340)

\* math.Sqrt of a fraction that is not negative.
Sqrt(a) ==
    LET rn == IntRoot(a[1], 0)
        rd == IntRoot(a[2], 0)
    IN  IF rn >= 0 /\ rd >= 0 THEN <<rn, rd>> ELSE <<a[1], a[2], 2>>

\* The order of float64 values that are not negative, roots included.
Square(a) == IF Len(a) = 3 THEN <<a[1], a[2]>> ELSE RatMul(a, a)
FloatLeq(a, b) ==
    IF Len(a) = 3 \/ Len(b) = 3 THEN RatLeq(Square(a), Square(b)) ELSE RatLeq(a, b)

\* sort.Float64s: ascending order.
RECURSIVE Insert(_, _)
Insert(sorted, x) ==
    IF sorted = << >> THEN <<x>>
    ELSE IF FloatLeq(x, Head(sorted)) THEN <<x>> \o sorted
    ELSE <<Head(sorted)>> \o Insert(Tail(sorted), x)

RECURSIVE SortFloat64s(_)
SortFloat64s(xs) ==
    IF xs = << >> THEN << >>
    ELSE Insert(SortFloat64s(Tail(xs)), Head(xs))

RECURSIVE SumOf(_)
SumOf(xs) == IF xs = << >> THEN Zero ELSE RatAdd(Head(xs), SumOf(Tail(xs)))

\* Fault model: the times are taken in milliseconds.
Milliseconds(d) == d \div 1000000

\* time.Duration.Microseconds(): whole microseconds of a duration in ns.
Microseconds(d) == d \div 1000

\* float64(sample.TotalTime.Microseconds()) of every sample.
TimesOf(smp) == [i \in 1..Len(smp) |-> Float(Microseconds(smp[i].TotalTime))]

\* math.MaxFloat64, above every time of the model.
MaxFloat64 == <<2147483647, 1>>

\* The loop of calculateStatistics lines 49-59 for min, from math.MaxFloat64.
RECURSIVE MinOf(_, _)
MinOf(xs, min) ==
    IF xs = << >> THEN min
    ELSE MinOf(Tail(xs), IF RatLess(Head(xs), min) THEN Head(xs) ELSE min)

\* Fault model: max is the last time seen, not the largest.
LastOf(xs, max) == xs[Len(xs)]

\* The same loop for max, from 0.0.
RECURSIVE MaxOf(_, _)
MaxOf(xs, max) ==
    IF xs = << >> THEN max
    ELSE MaxOf(Tail(xs), IF RatLess(max, Head(xs)) THEN Head(xs) ELSE max)

\* calculateMedian of a sorted slice.
calculateMedian(sorted) ==
    LET n == Len(sorted) IN
    IF n = 0 THEN Zero
    ELSE IF n % 2 = 0
         THEN RatDiv(RatAdd(sorted[n \div 2], sorted[n \div 2 + 1]), Float(2))
         ELSE sorted[n \div 2 + 1]

\* Fault model: the MAD scaled to estimate a standard deviation (x 1.4826).
calculateMADScaled(sorted, median) ==
    IF Len(sorted) = 0 THEN Zero
    ELSE RatMul(Rat(7413, 5000),
                calculateMedian(SortFloat64s(
                    [i \in 1..Len(sorted) |-> RatAbs(RatSub(sorted[i], median))])))

\* calculateMAD: the median of the sorted absolute deviations from median.
calculateMAD(sorted, median) ==
    IF Len(sorted) = 0 THEN Zero
    ELSE calculateMedian(SortFloat64s(
             [i \in 1..Len(sorted) |-> RatAbs(RatSub(sorted[i], median))]))

\* The sums of calculateR2 lines 138-149, x being the 1-based position.
RECURSIVE SumInts(_)
SumInts(xs) == IF xs = << >> THEN 0 ELSE Head(xs) + SumInts(Tail(xs))

\* Fault model: calculateR2 without its check of the variance of the times.
calculateR2Unchecked(smp) ==
    IF Len(smp) < 2 THEN One
    ELSE LET n == Len(smp)
             y(i) == Microseconds(smp[i].TotalTime)
             sumX == SumInts([i \in 1..n |-> i])
             sumY == SumInts([i \in 1..n |-> y(i)])
             sumXY == SumInts([i \in 1..n |-> i * y(i)])
             sumX2 == SumInts([i \in 1..n |-> i * i])
             sumY2 == SumInts([i \in 1..n |-> y(i) * y(i)])
             numerator == n * sumXY - sumX * sumY
             varX == n * sumX2 - sumX * sumX
             varY == n * sumY2 - sumY * sumY
             r2 == Rat(numerator * numerator, varX * varY)
         IN  IF varX = 0 THEN Zero
             ELSE IF RatLess(r2, Zero) THEN Zero
             ELSE IF RatLess(One, r2) THEN One
             ELSE r2

\* The pairs the regression of calculateR2 is made on (lines 140-142):
\* x := float64(i + 1), the position in the slice it is given, and
\* y := float64(sample.TotalTime.Microseconds()).
RegressionPairs(smp) ==
    [i \in 1..Len(smp) |-> <<i, Microseconds(smp[i].TotalTime)>>]

\* calculateR2: the squared correlation of position and time, within [0, 1].
calculateR2(smp) ==
    IF Len(smp) < 2 THEN One
    ELSE LET n == Len(smp)
             x(i) == RegressionPairs(smp)[i][1]
             y(i) == RegressionPairs(smp)[i][2]
             sumX == SumInts([i \in 1..n |-> x(i)])
             sumY == SumInts([i \in 1..n |-> y(i)])
             sumXY == SumInts([i \in 1..n |-> x(i) * y(i)])
             sumX2 == SumInts([i \in 1..n |-> x(i) * x(i)])
             sumY2 == SumInts([i \in 1..n |-> y(i) * y(i)])
             numerator == n * sumXY - sumX * sumY
             denominator == n * sumX2 - sumX * sumX
             varX == n * sumX2 - sumX * sumX
             varY == n * sumY2 - sumY * sumY
             r2 == Rat(numerator * numerator, varX * varY)
         IN  IF denominator = 0 THEN Zero
             ELSE IF varY = 0 THEN One
             ELSE IF RatLess(r2, Zero) THEN Zero
             ELSE IF RatLess(One, r2) THEN One
             ELSE r2

\* Fault model: what calculateStatistics would compute for no samples without
\* its first check: 0/0 for the mean, 1.0 for R2.
UncheckedStatistics ==
    [Mean |-> <<0, 0>>, StdDev |-> <<0, 0>>, Median |-> <<0, 1>>,
     MAD |-> <<0, 1>>, Min |-> <<2147483647, 1>>, Max |-> <<0, 1>>,
     Count |-> 0, Throughput |-> <<0, 0>>, R2 |-> <<1, 1>>]

\* Statistics{}: the zero value.
ZeroStatistics ==
    [Mean |-> Zero, StdDev |-> Zero, Median |-> Zero, MAD |-> Zero,
     Min |-> Zero, Max |-> Zero, Count |-> 0, Throughput |-> Zero, R2 |-> Zero]

\* The count of samples calculateStatistics reports: int64(len(samples)).
CountOf(smp) == Len(smp)

\* calculateStatistics(samples)
calculateStatistics(smp) ==
    IF Len(smp) = 0 THEN ZeroStatistics
    ELSE LET times == TimesOf(smp)
             n == Float(Len(smp))
             sum == SumOf(times)
             min == MinOf(times, MaxFloat64)
             max == MaxOf(times, Zero)
             mean == RatDiv(sum, n)
             varianceSum ==
                 SumOf([i \in 1..Len(times) |->
                           RatMul(RatSub(times[i], mean), RatSub(times[i], mean))])
             stdDev == Sqrt(RatDiv(varianceSum, n))
             sortedTimes == SortFloat64s(times)
             median == calculateMedian(sortedTimes)
             mad == calculateMAD(sortedTimes, median)
             meanSeconds == RatDiv(mean, Float(1000000))
             throughput == RatDiv(One, meanSeconds)
             r2 == calculateR2(smp)
         IN  [Mean |-> mean, StdDev |-> stdDev, Median |-> median, MAD |-> mad,
              Min |-> min, Max |-> max, Count |-> CountOf(smp),
              Throughput |-> throughput, R2 |-> r2]

\* ConfidenceInterval{}: the zero value.
ZeroConfidenceInterval ==
    [LowerBound |-> Zero, Estimate |-> Zero, UpperBound |-> Zero]

\* The statistic functions PrintStatistics hands to bootstrapResample
\* (statistics.go lines 252-302), on a slice of times that is not empty.
StatFunc(name, times) ==
    LET n == Float(Len(times))
        mean == RatDiv(SumOf(times), n)
        sorted == SortFloat64s(times)
    IN  CASE name = "throughput" ->
                 RatDiv(One, RatDiv(mean, Float(1000000)))
          [] name = "mean" -> mean
          [] name = "stdDev" ->
                 Sqrt(RatDiv(SumOf([i \in 1..Len(times) |->
                     RatMul(RatSub(times[i], mean), RatSub(times[i], mean))]), n))
          [] name = "median" -> calculateMedian(sorted)
          [] name = "mad" -> calculateMAD(sorted, calculateMedian(sorted))

\* int(float64(numResamples) * (alpha / 2.0)), alpha = 1 - confidenceLevel
lowerIdx(numResamples) ==
    LET idx == (numResamples * 25) \div 1000
    IN  IF idx < 0 THEN 0 ELSE idx

\* Fault model: the upper index taken at alpha/2 like the lower one.
upperIdxOfAlpha(numResamples) == (numResamples * 25) \div 1000

\* int(float64(numResamples) * (1.0 - alpha/2.0)), at most numResamples - 1
upperIdx(numResamples) ==
    LET idx == (numResamples * 975) \div 1000
    IN  IF idx >= numResamples THEN numResamples - 1 ELSE idx

\* The samples a bootstrapResample call in progress works on.
BootTimes == TimesOf(samples[boot.op])

\* A direct BenchmarkPlots.AddSample, as the tests of the package make. The
\* statistics are computed once the samples are collected.
PlotsAddSample(op, d) ==
    /\ boot = NoBoot
    /\ result = NoResult
    /\ sampleCounters[op] < MaxSamples
    /\ AddSample(op, d)
    /\ UNCHANGED <<xvars, cvars, svars, now, mu, timings, tpc, tcall, tdret, completed>>

\* calculateStatistics(samples) is called on the samples of one label.
CalculateStatistics(op) ==
    /\ boot = NoBoot
    /\ result' = [fn |-> "calculateStatistics", op |-> op,
                  value |-> calculateStatistics(samples[op])]
    /\ UNCHANGED <<xvars, cvars, tvars, boot>>

\* calculateMedian and calculateMAD are called on the sorted times of one
\* label, as calculateStatistics lines 74-80 call them, or on no times at all.
CalculateMedian(op) ==
    /\ boot = NoBoot
    /\ LET sorted == SortFloat64s(TimesOf(samples[op]))
           median == calculateMedian(sorted)
       IN  result' = [fn |-> "calculateMedian", op |-> op,
                      value |-> [Median |-> median,
                                 MAD |-> calculateMAD(sorted, median)]]
    /\ UNCHANGED <<xvars, cvars, tvars, boot>>

\* calculateR2(samples) is called on the samples of one label.
CalculateR2(op) ==
    /\ boot = NoBoot
    /\ result' = [fn |-> "calculateR2", op |-> op,
                  value |-> calculateR2(samples[op])]
    /\ UNCHANGED <<xvars, cvars, tvars, boot>>

\* bootstrapResample(samples, statFunc, numResamples) is called: no samples, no
\* resampling; otherwise the estimate is statFunc of the original times.
BootstrapBegin(op, name) ==
    /\ boot = NoBoot
    /\ IF Len(samples[op]) = 0
       THEN /\ result' = [fn |-> "bootstrapResample", op |-> op, stat |-> name,
                          resampled |-> FALSE,
                          value |-> ZeroConfidenceInterval]
            /\ boot' = boot
       ELSE /\ boot' = [stat |-> name, op |-> op,
                        estimate |-> StatFunc(name, TimesOf(samples[op])),
                        bootstrapStats |-> << >>, pairs |-> << >>]
            /\ result' = NoResult
    /\ UNCHANGED <<xvars, cvars, tvars>>

\* One turn of the resampling loop: resample[j] = times[rng.Intn(len(times))]
\* for every j, so each entry is any one of the times; then
\* bootstrapStats[i] = statFunc(resample).
Resample(resample) ==
    /\ boot # NoBoot
    /\ Len(boot.bootstrapStats) < NumResamples
    /\ Len(resample) = Len(BootTimes)
    /\ \A j \in 1..Len(resample) :
           \E i \in 1..Len(BootTimes) : resample[j] = BootTimes[i]
    /\ boot' = [boot EXCEPT !.bootstrapStats =
                   Append(@, StatFunc(boot.stat, resample))]
    /\ UNCHANGED <<xvars, cvars, tvars, result>>

\* After the loop: sort bootstrapStats and read the two percentiles.
BootstrapEnd ==
    /\ boot # NoBoot
    /\ Len(boot.bootstrapStats) = NumResamples
    /\ LET sorted == SortFloat64s(boot.bootstrapStats)
       IN  result' = [fn |-> "bootstrapResample", op |-> boot.op,
                      stat |-> boot.stat, resampled |-> TRUE,
                      value |->
                          [LowerBound |-> sorted[lowerIdx(NumResamples) + 1],
                           Estimate |-> boot.estimate,
                           UpperBound |-> sorted[upperIdx(NumResamples) + 1]]]
    /\ boot' = NoBoot
    /\ UNCHANGED <<xvars, cvars, tvars>>

\* The slices of times a resample can be.
Resamples ==
    UNION {[1..n -> {Float(Microseconds(d)) : d \in SampleTimes}] :
               n \in 1..MaxSamples}

\* The samples the resampling in progress draws from.
BootSamples == IF boot = NoBoot THEN << >> ELSE samples[boot.op]

\* PrintStatistics resamples R2 only if len(samples) > 10.
R2MinSamples == 10

\* Fault model: resampling starts at ten samples.
ResamplesR2FromTen(n) == n >= R2MinSamples

\* The condition of statistics.go line 314.
ResamplesR2(n) == n > R2MinSamples

\* A direct BenchmarkPlots.AddSample, before PrintStatistics is called.
R2AddSample(op, d) ==
    /\ boot = NoBoot
    /\ result = NoResult
    /\ sampleCounters[op] < MaxR2Samples
    /\ AddSample(op, d)
    /\ UNCHANGED <<xvars, cvars, svars, now, mu, timings, tpc, tcall, tdret, completed>>

\* PrintStatistics, lines 305-314: r2CI starts as stats.R2 on its three
\* fields and stays so up to 10 samples; stats.R2 is calculateR2(samples), the
\* samples being not empty (calculateStatistics line 86).
R2IntervalBegin(op) ==
    /\ boot = NoBoot
    /\ Len(samples[op]) > 0
    /\ LET r2 == calculateR2(samples[op]) IN
       IF ResamplesR2(Len(samples[op]))
       THEN /\ boot' = [stat |-> "r2", op |-> op, estimate |-> r2,
                        bootstrapStats |-> << >>, pairs |-> << >>]
            /\ result' = NoResult
       ELSE /\ result' = [fn |-> "r2CI", op |-> op, stat |-> "r2",
                          resampled |-> FALSE, turns |-> 0,
                          value |-> [LowerBound |-> r2, Estimate |-> r2,
                                     UpperBound |-> r2]]
            /\ boot' = boot
    /\ UNCHANGED <<xvars, cvars, tvars>>

\* The draws of rng.Intn(len(samples)) for one resample that SpecR2 follows:
\* every position its own sample, the first and the last sample in turns, the
\* first sample throughout.
DrawPatterns(n) ==
    {[j \in 1..n |-> j],
     [j \in 1..n |-> IF j % 2 = 1 THEN 1 ELSE n],
     [j \in 1..n |-> 1]}

\* One turn of the loop of lines 318-326: resampledData[j] = samples[idx],
\* then r2Samples[i] = calculateR2(resampledData).
R2Resample(draw) ==
    /\ boot # NoBoot
    /\ boot.stat = "r2"
    /\ Len(boot.bootstrapStats) < R2Resamples
    /\ draw \in DrawPatterns(Len(BootSamples))
    /\ LET resampledData ==
               [j \in 1..Len(BootSamples) |-> BootSamples[draw[j]]]
       IN  boot' = [boot EXCEPT
                       !.bootstrapStats = Append(@, calculateR2(resampledData)),
                       !.pairs = RegressionPairs(resampledData)]
    /\ UNCHANGED <<xvars, cvars, tvars, result>>

\* Lines 328-339: sort r2Samples and read the two percentiles.
R2IntervalEnd ==
    /\ boot # NoBoot
    /\ boot.stat = "r2"
    /\ Len(boot.bootstrapStats) = R2Resamples
    /\ LET sorted == SortFloat64s(boot.bootstrapStats)
       IN  result' = [fn |-> "r2CI", op |-> boot.op, stat |-> "r2",
                      resampled |-> TRUE, turns |-> Len(boot.bootstrapStats),
                      value |->
                          [LowerBound |-> sorted[lowerIdx(R2Resamples) + 1],
                           Estimate |-> boot.estimate,
                           UpperBound |-> sorted[upperIdx(R2Resamples) + 1]]]
    /\ boot' = NoBoot
    /\ UNCHANGED <<xvars, cvars, tvars>>

\* Samples are added to a BenchmarkPlots and PrintStatistics computes the R2
\* interval of a label.
R2Next ==
    \/ \E op \in StatsLabels, d \in R2SampleTimes : R2AddSample(op, d)
    \/ \E op \in StatsLabels : R2IntervalBegin(op)
    \/ \E draw \in DrawPatterns(Len(BootSamples)) : R2Resample(draw)
    \/ R2IntervalEnd

SpecR2 == Init /\ [][R2Next]_vars

\* Samples are added to a BenchmarkPlots and the statistics functions are
\* applied to them, by one thread.
StatsNext ==
    \/ \E op \in StatsLabels, d \in SampleTimes : PlotsAddSample(op, d)
    \/ \E op \in StatsLabels : CalculateStatistics(op)
    \/ \E op \in StatsLabels : CalculateR2(op)
    \/ \E op \in StatsLabels : CalculateMedian(op)
    \/ \E op \in StatsLabels, name \in StatNames : BootstrapBegin(op, name)
    \/ \E resample \in Resamples : Resample(resample)
    \/ BootstrapEnd

SpecStats == Init /\ [][StatsNext]_vars

\* ------------------------------------------ FormatMetricsTable (metrics.go)
\* A line of measurement.Output() is kept as its first token (the empty
\* string when the line is empty or begins with white space) followed by
\* "key: value" fields; the text of a value is kept as it is printed.
PatternKeys == <<"Takes(s)", "Count", "OPS", "Avg(us)", "Min(us)", "Max(us)",
                 "50th(us)", "90th(us)", "95th(us)", "99th(us)", "99.9th(us)">>

DigitTexts == {"2", "4", "5", "6", "7", "8", "9", "10", "11", "12"}
DecimalTexts == {"0.1", "20.5"}

\* \d+ and [\d.]+
IsDigits(v) == v \in DigitTexts
IsDecimal(v) == v \in DigitTexts \cup DecimalTexts

\* The line go-ycsb prints for an operation; the 99.99th percentile follows
\* the fields the pattern names.
StatsLine(op) ==
    [first |-> op,
     keys |-> PatternKeys \o <<"99.99th(us)">>,
     vals |-> <<"0.1", "2", "20.5", "4", "5", "6", "7", "8", "9", "10", "11",
                "12">>]

\* A line cut off after Avg(us), an empty line, and a line whose Count is not
\* a whole number.
ShortLine(op) ==
    [first |-> op, keys |-> SubSeq(PatternKeys, 1, 4),
     vals |-> <<"0.1", "2", "20.5", "4">>]
BlankLine == [first |-> "", keys |-> << >>, vals |-> << >>]
FloatCountLine(op) == [StatsLine(op) EXCEPT !.vals[2] = "20.5"]

\* The lines a captured output is made of, and the captured outputs.
TableLines ==
    {StatsLine("READ"), StatsLine("UPDATE"), StatsLine("TOTAL"),
     StatsLine("READ_ERROR"), ShortLine("READ"), BlankLine,
     FloatCountLine("UPDATE")}

SeqsUpTo(S, n) == UNION {[1..k -> S] : k \in 0..n}

Outputs == SeqsUpTo({StatsLine("READ"), StatsLine("TOTAL"),
                     StatsLine("READ_ERROR"), ShortLine("READ")}, MaxLines)
           \cup SeqsUpTo(TableLines, 2)

\* The labels tracked before the table is rendered.
TableLabels == {"READ", "UPDATE"}

\* re.FindStringSubmatch(line): the whole match and the twelve groups, or
\* nothing. The pattern is anchored at the start of the line only.
FindStringSubmatch(line) ==
    IF /\ line.first # ""
       /\ Len(line.keys) >= Len(PatternKeys)
       /\ SubSeq(line.keys, 1, Len(PatternKeys)) = PatternKeys
       /\ IsDecimal(line.vals[1])
       /\ IsDecimal(line.vals[3])
       /\ \A i \in (1..Len(PatternKeys)) \ {1, 3} : IsDigits(line.vals[i])
    THEN <<line>> \o <<line.first>> \o SubSeq(line.vals, 1, Len(PatternKeys))
    ELSE << >>

\* Total(ms) is "N/A" or fmt.Sprintf("%.3f", float64(us)/1000.0), kept as
\* the number of microseconds it shows.
NA == <<"N/A">>
Ms(us) == <<"%.3f", us>>

RECURSIVE SumTotalTime(_, _)
SumTotalTime(tm, ops) ==
    IF ops = {} THEN 0
    ELSE LET op == CHOOSE o \in ops : TRUE
         IN  tm[op].TotalTime + SumTotalTime(tm, ops \ {op})

\* The TOTAL row: the times of all copied timings are added, then shown.
TotalOf(tm, ops) == Ms(Microseconds(SumTotalTime(tm, ops)))

\* Fault model: an operation without a timing is shown with no time spent.
TotalMsOrZero(op, tm, ops) ==
    IF op = "TOTAL" THEN TotalOf(tm, ops)
    ELSE IF op \in ops THEN Ms(Microseconds(tm[op].TotalTime))
    ELSE Ms(0)

\* totalMs of a row: timingData holds pointers, so the time is read from the
\* tracker's own OperationTiming.
TotalMs(op, tm, ops) ==
    IF op = "TOTAL" THEN TotalOf(tm, ops)
    ELSE IF op \in ops THEN Ms(Microseconds(tm[op].TotalTime))
    ELSE NA

\* The row made of a match: matches[k] of the code is m[k + 1] here.
RowOf(m, tm, ops) ==
    [op |-> m[2], totalMs |-> TotalMs(m[2], tm, ops), count |-> m[4],
     ops |-> m[5], avg |-> m[6], p50 |-> m[9], p95 |-> m[11], p99 |-> m[12],
     p999 |-> m[13], max |-> m[8]]

\* FormatMetricsTable is called: stdout is captured while
\* measurement.Output() prints, whatever it prints.
FormatMetricsTableCall(out) ==
    /\ fpc = "idle"
    /\ output' = out
    /\ fpc' = "lock"
    /\ UNCHANGED <<cvars, tvars, svars, pvars, ovars, timingData, scanned, rows, totalRow,
                   printed>>

\* tracker.mu.Lock(); the timings map is copied, pointer by pointer;
\* tracker.mu.Unlock()
CopyTimings ==
    /\ fpc = "lock"
    /\ mu = 0
    /\ timingData' = [op \in DOMAIN timings |-> timings[op]]
    /\ fpc' = "scan"
    /\ UNCHANGED <<cvars, tvars, svars, pvars, ovars, output, scanned, rows, totalRow,
                   printed>>

\* Fault model: the TOTAL row is kept among the other rows, where it came.
KeepInPlace(row, rs, tr) == <<Append(rs, row), tr>>

\* The rows and the TOTAL row after a matching line: totalRow is "" until a
\* TOTAL line is seen, kept here as the empty sequence.
Keep(row, rs, tr) ==
    IF row.op = "TOTAL" THEN <<rs, <<row>>>> ELSE <<Append(rs, row), tr>>

\* One turn of the scanner loop.
ScanLine ==
    /\ fpc = "scan"
    /\ scanned < Len(output)
    /\ scanned' = scanned + 1
    /\ LET matches == FindStringSubmatch(output[scanned + 1])
           kept == Keep(RowOf(matches, timings, DOMAIN timingData), rows, totalRow)
       IN  IF Len(matches) > 0
           THEN rows' = kept[1] /\ totalRow' = kept[2]
           ELSE UNCHANGED <<rows, totalRow>>
    /\ UNCHANGED <<cvars, tvars, svars, pvars, ovars, fpc, output, timingData, printed>>

\* The rows are printed, then the TOTAL row if there is one.
PrintRows ==
    /\ fpc = "scan"
    /\ scanned = Len(output)
    /\ printed' = rows \o totalRow
    /\ fpc' = "done"
    /\ UNCHANGED <<cvars, tvars, svars, pvars, ovars, output, timingData, scanned, rows,
                   totalRow>>

\* The workload has run: no tracked call is under way.
AllTrackedDone == \A t \in Threads : TIdle(t)

\* One goroutine runs tracked operations while the clock advances, then
\* renders the table.
TableNext ==
    \/ fpc = "idle" /\ TickTo(TableMaxTime)
    \/ \E op \in TableLabels : fpc = "idle" /\ TrackerCall(1, op, TableOps)
    \/ TrackerStep(1)
    \/ \E out \in Outputs : AllTrackedDone /\ FormatMetricsTableCall(out)
    \/ CopyTimings
    \/ ScanLine
    \/ PrintRows

SpecTable == Init /\ [][TableNext]_vars

\* The output and the label of SpecTableRace.
RaceOutputs == {<<StatsLine("READ"), StatsLine("TOTAL")>>}
RaceLabels == {"READ"}

\* A worker goroutine still makes tracked calls while the main goroutine
\* renders the table.
TableRaceNext ==
    \/ TickTo(TableMaxTime)
    \/ \E op \in RaceLabels : TrackerCall(2, op, TableOps)
    \/ TrackerStep(2)
    \/ \E out \in RaceOutputs : FormatMetricsTableCall(out)
    \/ CopyTimings
    \/ ScanLine
    \/ PrintRows

SpecTableRace == Init /\ [][TableRaceNext]_vars


\* ------------------------------------------------ GeneratePlots (plotter.go)
\* The labels and the duration (ns) of the samples SpecPlots adds.
PlotLabels == {"READ", "UPDATE"}
PlotTimes == {500}

\* A file name is kept as the parts that "_" joins.
\* time.Now().Format("20060102-150405"): the time of day, in whole seconds.
Timestamp == (now * TickNs) \div 1000000000

\* fmt.Sprintf("%s_%s_sample_times.png", operation, timestamp)
FileName(operation, timestamp) == <<operation, timestamp, "sample_times.png">>

\* OperationTracker.GeneratePlots takes the lock and calls
\* BenchmarkPlots.GeneratePlots, where os.MkdirAll(outputDir) succeeds or not.
GeneratePlotsCall(made) ==
    /\ ppc = "idle"
    /\ \A t \in Threads : TIdle(t)
    /\ mu = 0
    /\ mu' = 1
    /\ IF made
       THEN /\ ppc' = "range"
            /\ todo' = PlotLabels
            /\ pret' = "none"
       ELSE /\ ppc' = "done"
            /\ pret' = "err"
            /\ UNCHANGED todo
    /\ UNCHANGED <<cvars, svars, fvars, ovars, now, timings, samples, sampleCounters,
                   tpc, tcall, tdret, completed, files, warnings>>

\* A turn of the range loop for a label without samples: continue.
SkipEmpty(operation) ==
    /\ ppc = "range"
    /\ operation \in todo
    /\ Len(samples[operation]) = 0
    /\ todo' = todo \ {operation}
    /\ UNCHANGED <<cvars, tvars, svars, fvars, ovars, ppc, files, warnings, pret>>

\* A turn of the range loop for a label with samples: generateSampleTimesPlot
\* saves the plot, or fails and the failure is printed as a warning.
GenerateSampleTimesPlot(operation, saved) ==
    /\ ppc = "range"
    /\ operation \in todo
    /\ Len(samples[operation]) # 0
    /\ todo' = todo \ {operation}
    /\ IF saved
       THEN /\ files' = files \cup {FileName(operation, Timestamp)}
            /\ UNCHANGED warnings
       ELSE /\ warnings' = warnings \cup {operation}
            /\ UNCHANGED files
    /\ UNCHANGED <<cvars, tvars, svars, fvars, ovars, ppc, pret>>

\* Fault model: a plot that could not be rendered fails the whole call.
ResultFailsOnWarning(failed) == IF failed = {} THEN "nil" ELSE "err"

\* What GeneratePlots returns once the range loop is over.
GeneratePlotsResult(failed) == "nil"

\* return nil, and the deferred ot.mu.Unlock()
GeneratePlotsReturn ==
    /\ ppc = "range"
    /\ todo = {}
    /\ pret' = GeneratePlotsResult(warnings)
    /\ ppc' = "done"
    /\ mu' = 0
    /\ UNCHANGED <<cvars, svars, fvars, ovars, now, timings, samples, sampleCounters,
                   tpc, tcall, tdret, completed, todo, files, warnings>>

\* Samples are added to a BenchmarkPlots, then its plots are generated.
PlotsNext ==
    \/ \E op \in PlotLabels, d \in PlotTimes : ppc = "idle" /\ PlotsAddSample(op, d)
    \/ \E made \in BOOLEAN : GeneratePlotsCall(made)
    \/ \E op \in PlotLabels : SkipEmpty(op)
    \/ \E op \in PlotLabels, saved \in BOOLEAN : GenerateSampleTimesPlot(op, saved)
    \/ GeneratePlotsReturn

SpecPlots == Init /\ [][PlotsNext]_vars


\* ---------------------- ycsb commands (cmd/pebble_ycsb.go, triedb_ycsb.go)
\* A property value and a -p argument are kept as the pieces between and
\* including their "=" signs; a properties file is kept as the map it loads.
PropKeys == {"recordcount", "datadir"}
PropValues == {<<"1000">>, <<"10000">>}

\* The -p arguments tried: key=value, a key alone, and a value with an "=".
PropArgs ==
    {<<k, "=">> \o v : k \in PropKeys, v \in PropValues}
        \cup {<<"recordcount">>, <<"datadir", "=", "a", "=", "b">>}

\* What a property file or a workload file can hold; -P may be left out.
PropFiles == {NoProperties,
              [k \in {"recordcount"} |-> <<"1000">>],
              [k \in PropKeys |-> <<"1000">>]}


\* strings.SplitN(p, "=", 2)
RECURSIVE IndexOf(_, _, _)
IndexOf(s, x, i) ==
    IF i > Len(s) THEN 0 ELSE IF s[i] = x THEN i ELSE IndexOf(s, x, i + 1)

SplitN2(p) ==
    LET i == IndexOf(p, "=", 1)
    IN  IF i = 0 THEN <<p>>
        ELSE <<SubSeq(p, 1, i - 1), SubSeq(p, i + 1, Len(p))>>

\* props.Set(key, value)
Set(ps, key, value) ==
    [k \in DOMAIN ps \cup {key} |-> IF k = key THEN value ELSE ps[k]]

\* props.Merge(other) of magiconair/properties: every value of other is
\* stored, over the value of the same key.
Merge(ps, other) ==
    [k \in DOMAIN ps \cup DOMAIN other |->
        IF k \in DOMAIN other THEN other[k] ELSE ps[k]]

\* props.GetString(key, def)
GetString(ps, key, def) == IF key \in DOMAIN ps THEN ps[key] ELSE def

\* The command starts with its flags parsed; the workload file is given.
\* props := properties.NewProperties(), and the -P file is loaded if named.
Run(cmd, pfile, pvalues, wfile) ==
    /\ opc = "idle"
    /\ flags' = [cmd |-> cmd, propertyFile |-> pfile,
                 propertyValues |-> pvalues, workloadFile |-> wfile]
    /\ props' = IF ~pfile.named THEN NoProperties
                ELSE Merge(NoProperties, pfile.data)
    /\ opc' = "values"
    /\ UNCHANGED <<cvars, tvars, svars, fvars, pvars, nextValue, effective>>

\* One turn of the loop over the -p values.
SetPropertyValue ==
    /\ opc = "values"
    /\ nextValue <= Len(flags.propertyValues)
    /\ LET parts == SplitN2(flags.propertyValues[nextValue])
       IN  IF Len(parts) # 2
           THEN opc' = "exit" /\ UNCHANGED <<props, nextValue>>
           ELSE /\ props' = Set(props, parts[1][1], parts[2])
                /\ nextValue' = nextValue + 1
                /\ UNCHANGED opc
    /\ UNCHANGED <<cvars, tvars, svars, fvars, pvars, flags, effective>>

\* props.Set(prop.DB, dbName); the measurement type defaults to histogram;
\* the pebble command also sets dotransactions.
SetFixedProperties ==
    /\ opc = "values"
    /\ nextValue > Len(flags.propertyValues)
    /\ LET withDB == Set(props, "db", <<flags.cmd>>)
           withType ==
               IF GetString(withDB, "measurementtype", <<"">>) = <<"">>
               THEN Set(withDB, "measurementtype", <<"histogram">>)
               ELSE withDB
       IN  props' = IF flags.cmd = "pebble"
                    THEN Set(withType, "dotransactions", <<"true">>)
                    ELSE withType
    /\ opc' = "workload"
    /\ UNCHANGED <<cvars, tvars, svars, fvars, pvars, flags, nextValue, effective>>

\* The workload file is loaded into new properties and merged into props.
MergeWorkloadFile ==
    /\ opc = "workload"
    /\ props' = Merge(props, flags.workloadFile)
    /\ opc' = "create"
    /\ UNCHANGED <<cvars, tvars, svars, fvars, pvars, flags, nextValue, effective>>

\* workloadCreator.Create(props) and dbCreator.Create(props)
Create ==
    /\ opc = "create"
    /\ effective' = props
    /\ opc' = "created"
    /\ UNCHANGED <<cvars, tvars, svars, fvars, pvars, flags, props, nextValue>>

\* One of the two ycsb commands runs, with any flags.
CommandNext ==
    \/ \E cmd \in {"pebble", "triedb"}, pfile \in {NoFile} \cup {[named |-> TRUE, data |-> f] : f \in PropFiles},
          pvalues \in SeqsUpTo(PropArgs, MaxPropValues), wfile \in PropFiles :
           Run(cmd, pfile, pvalues, wfile)
    \/ SetPropertyValue
    \/ SetFixedProperties
    \/ MergeWorkloadFile
    \/ Create

SpecCommand == Init /\ [][CommandNext]_vars


\* --------------------------------------- the sample store over a whole run
\* The label, the duration (ns) and the measurement output of SpecStore.
StoreLabels == {"READ"}
StoreTimes == {1000000}
StoreOutputs == {<<StatsLine("TOTAL"), StatsLine("READ")>>}

\* A run as the ycsb commands make it, by one goroutine: tracked calls and
\* direct AddSample calls, then FormatMetricsTable, then GeneratePlots, then
\* the statistics PrintStatistics computes.
StoreNext ==
    \/ \E op \in StoreLabels :
           fpc = "idle" /\ ppc = "idle" /\ TrackerCall(1, op, TableOps)
    \/ TrackerStep(1)
    \/ \E op \in StoreLabels, d \in StoreTimes :
           fpc = "idle" /\ ppc = "idle" /\ PlotsAddSample(op, d)
    \/ \E out \in StoreOutputs : AllTrackedDone /\ FormatMetricsTableCall(out)
    \/ CopyTimings
    \/ ScanLine
    \/ PrintRows
    \/ \E made \in BOOLEAN : fpc = "done" /\ GeneratePlotsCall(made)
    \/ \E op \in PlotLabels : SkipEmpty(op)
    \/ \E op \in PlotLabels, saved \in BOOLEAN : GenerateSampleTimesPlot(op, saved)
    \/ GeneratePlotsReturn
    \/ \E op \in StoreLabels : ppc = "done" /\ CalculateStatistics(op)
    \/ \E op \in StoreLabels, name \in StatNames :
           ppc = "done" /\ BootstrapBegin(op, name)
    \/ \E resample \in Resamples : Resample(resample)
    \/ BootstrapEnd

SpecStore == Init /\ [][StoreNext]_vars


\* ------------------------------------------------------------------ claims
AllIdle == \A t \in Threads : Idle(t)

\* timings[op].Count, 0 for a label never tracked.
TimingCount(op) == IF op \in DOMAIN timings THEN timings[op].Count ELSE 0

\* The threads between ot.mu.Lock() and the deferred ot.mu.Unlock().
Inside == {t \in Threads : tpc[t] \in {"timing", "addSample", "unlock"}}

\* 1 if b, else 0.
Bit(b) == IF b THEN 1 ELSE 0

\* C1: once all concurrent Record calls have returned, the total count of
\* each kind's histogram equals the kind's atomic count, which equals the
\* number of calls made for that kind.
C1_NoLostUpdates ==
    AllIdle =>
        \A k \in Kinds :
            /\ TotalCount(latencyHist[k]) = count[k]
            /\ count[k] = returned[k]

\* C1: two calls of one kind have returned, the atomic count is 2 and the
\* histogram's total count is 1.
C1_LostUpdate ==
    /\ AllIdle
    /\ \E k \in Kinds :
           /\ returned[k] = 2
           /\ count[k] = 2
           /\ TotalCount(latencyHist[k]) = 1

\* C2, as stated: after N latencies recorded by one thread for a kind, whatever
\* their values, the kind's count is N and its histogram's total count is N.
C2_EveryLatencyCounted ==
    Idle(1) =>
        \A k \in Kinds :
            /\ count[k] = returned[k]
            /\ TotalCount(latencyHist[k]) = returned[k]

\* C2, amended: after N latencies recorded by one thread for a kind, the
\* kind's count is N and its histogram's total count is the number of those
\* latencies that are below 2^36 ns; a latency of 2^36 ns or more is counted
\* and not entered in the histogram.
C2_LatenciesBelowLimitCounted ==
    Idle(1) =>
        \A k \in Kinds :
            /\ count[k] = returned[k]
            /\ TotalCount(latencyHist[k]) = accepted[k]

\* C2: two latencies of one kind were recorded, one of them at the limit: the
\* count is 2 and the histogram holds 1.
C2_OneDropped ==
    /\ Idle(1)
    /\ \E k \in Kinds :
           /\ returned[k] = 2
           /\ accepted[k] = 1
           /\ count[k] = 2
           /\ TotalCount(latencyHist[k]) = 1

\* C3: for every label and every interleaving of tracked calls, the samples of
\* the label carry SampleIndex 1..N in sequence order, N being the number of
\* tracked calls completed for the label (plus the call that has appended its
\* sample and not yet released the lock).
C3_SampleIndexDense ==
    \A op \in Labels :
        /\ \A i \in 1..Len(samples[op]) : samples[op][i].SampleIndex = i
        /\ Len(samples[op]) =
               completed[op] +
               Cardinality({t \in Threads :
                                tpc[t] = "unlock" /\ tcall[t].op = op})

\* C3: two tracked calls of one label have completed.
C3_TwoSamples ==
    \E op \in Labels :
        /\ completed[op] = 2
        /\ Len(samples[op]) = 2
        /\ samples[op][2].SampleIndex = 2

\* C4: at most one thread is inside the locked section of track, and in every
\* state in which no thread holds the lock, for every label timings[op].Count
\* = sampleCounters[op] = len(samples[op]) = the tracked calls completed.
C4_LockedUpdateAtomic ==
    /\ Cardinality(Inside) <= 1
    /\ mu # 0 => Inside = {mu}
    /\ mu = 0 =>
           \A op \in Labels :
               /\ TimingCount(op) = sampleCounters[op]
               /\ sampleCounters[op] = Len(samples[op])
               /\ TimingCount(op) = completed[op]

\* C4: the lock is free after one tracked update while the other thread waits
\* for it.
C4_ReleasedWhileWaited ==
    /\ mu = 0
    /\ \E t \in Threads : tpc[t] = "lock"
    /\ \E op \in Labels : TimingCount(op) = 1 /\ Len(samples[op]) = 1

\* C5: a method of OperationTracker or of TrackedDB returns exactly the result
\* and the error its delegate returned, and each call is tracked once, whether
\* the delegate failed or not: timings[op].Count counts the calls that have
\* passed the update and the Collector's count those that have passed Add(1).
C5_WrappersPassThrough ==
    /\ [](/\ \A op \in Labels :
                TimingCount(op) =
                    completed[op] +
                    Cardinality({t \in Threads :
                                     /\ tpc[t] \in {"addSample", "unlock"}
                                     /\ tcall[t].op = op})
          /\ \A k \in Kinds :
                count[k] =
                    returned[k] +
                    Cardinality({t \in Threads :
                                     /\ cpc[t] \notin {"idle", "delegate", "countAdd"}
                                     /\ ccall[t].kind = k}))
    /\ [][\A t \in Threads :
              /\ (tpc[t] = "unlock" /\ tpc'[t] = "idle") => lastRet' = tdret[t]
              /\ (/\ cpc[t] = "return" /\ cpc'[t] = "idle"
                  /\ ccall[t].fn = "TrackedDB") => lastRet' = dret[t]]_vars

\* C5: both wrappers have completed a call and the last call returned the
\* delegate's error.
C5_ErrorReturned ==
    /\ lastRet = <<"nil", "err">>
    /\ \E op \in Labels : completed[op] = 1 /\ TimingCount(op) = 1
    /\ \E k \in Kinds : returned[k] = 1 /\ count[k] = 1

\* C6, as stated: RecordReadWithAmp with readAmp <= 0 leaves readAmpCount and
\* readAmpSum as they were, adds 1 to readCount and the read histogram
\* receives the value.
C6_NonPositiveAmpRecorded ==
    \A t \in Threads :
        (/\ cpc[t] = "return"
         /\ ccall[t].fn = "RecordReadWithAmp"
         /\ ccall[t].readAmp <= 0
         /\ pre[t] # NoPre) =>
            /\ readAmpCount = pre[t].readAmpCount
            /\ readAmpSum = pre[t].readAmpSum
            /\ count["read"] = pre[t].count["read"] + 1
            /\ TotalCount(latencyHist["read"]) =
                   TotalCount(pre[t].latencyHist["read"]) + 1

\* C6, amended: RecordReadWithAmp with readAmp <= 0 leaves readAmpCount and
\* readAmpSum as they were and adds 1 to readCount; the read histogram
\* receives the value if the latency is below 2^36 ns and is left as it was
\* otherwise.
C6_NonPositiveAmpBelowLimit ==
    \A t \in Threads :
        (/\ cpc[t] = "return"
         /\ ccall[t].fn = "RecordReadWithAmp"
         /\ ccall[t].readAmp <= 0
         /\ pre[t] # NoPre) =>
            /\ readAmpCount = pre[t].readAmpCount
            /\ readAmpSum = pre[t].readAmpSum
            /\ count["read"] = pre[t].count["read"] + 1
            /\ IF ccall[t].latency < HistogramLimit
               THEN LET slot == countsIndexFor(ccall[t].latency) IN
                    /\ TotalCount(latencyHist["read"]) =
                           TotalCount(pre[t].latencyHist["read"]) + 1
                    /\ latencyHist["read"].counts[slot] =
                           pre[t].latencyHist["read"].counts[slot] + 1
               ELSE latencyHist["read"] = pre[t].latencyHist["read"]

\* C6: a call with readAmp -1 and a latency of 2^36 ns is about to return: it
\* is counted and the histogram is empty.
C6_NegativeAmpAtLimit ==
    /\ cpc[1] = "return"
    /\ ccall[1].fn = "RecordReadWithAmp"
    /\ ccall[1].readAmp = -1
    /\ ccall[1].latency = HistogramLimit
    /\ count["read"] = 1
    /\ TotalCount(latencyHist["read"]) = 0

\* C7: once the RecordReadWithAmp calls have returned, readAmpCount is the
\* number of calls with readAmp > 0 and readAmpSum the sum of their factors;
\* a PrintSummary that runs alone reports readAmpSum / readAmpCount, and only
\* when readAmpCount > 0.
C7_ReadAmpAccumulated ==
    /\ AllIdle => (readAmpCount = ampCalls /\ readAmpSum = ampTotal)
    /\ \A t \in Threads :
           (/\ cpc[t] = "return"
            /\ ccall[t].fn = "PrintSummary"
            /\ pre[t] # NoPre) =>
               /\ summary.printed
               /\ summary.shown = (ampCalls > 0)
               /\ summary.shown => (summary.sum = ampTotal /\ summary.n = ampCalls)

\* C7: after calls with factors 1 and 2 the summary shows 3 / 2.
C7_AverageShown ==
    /\ AllIdle
    /\ ampCalls = 2
    /\ summary.shown
    /\ summary.sum = 3
    /\ summary.n = 2

C9_StatisticsOrdered ==
    (result.fn = "calculateStatistics" /\ Len(samples[result.op]) > 0) =>
        LET smp == samples[result.op]
            us == [i \in 1..Len(smp) |-> <<smp[i].TotalTime \div 1000, 1>>]
            v == result.value
        IN  /\ v.Count = Len(smp)
            /\ RatLeq(v.Min, v.Median) /\ RatLeq(v.Median, v.Max)
            /\ RatLeq(v.Min, v.Mean) /\ RatLeq(v.Mean, v.Max)
            /\ \A i \in 1..Len(smp) : RatLeq(v.Min, us[i]) /\ RatLeq(us[i], v.Max)
            /\ \E i \in 1..Len(smp) : v.Min = us[i]
            /\ \E i \in 1..Len(smp) : v.Max = us[i]

\* C9: statistics of three samples whose mean lies strictly between the
\* smallest and the largest.
C9_ThreeSamples ==
    /\ result.fn = "calculateStatistics"
    /\ Len(samples[result.op]) = 3
    /\ RatLess(result.value.Min, result.value.Mean)
    /\ RatLess(result.value.Mean, result.value.Max)
    /\ samples[result.op][1].TotalTime > samples[result.op][3].TotalTime

\* C10: for no samples calculateStatistics returns the Statistics whose every
\* field is 0, R2 and Throughput included (no NaN or Inf of a division), and
\* bootstrapResample returns the ConfidenceInterval whose every field is 0,
\* without resampling.
C10_EmptySamplesAllZero ==
    /\ (result.fn = "calculateStatistics" /\ Len(samples[result.op]) = 0) =>
           LET v == result.value IN
           /\ v.Count = 0
           /\ \A x \in {v.Mean, v.StdDev, v.Median, v.MAD, v.Min, v.Max,
                        v.Throughput, v.R2} : x = <<0, 1>>
    /\ (result.fn = "bootstrapResample" /\ Len(samples[result.op]) = 0) =>
           LET v == result.value IN
           /\ ~result.resampled
           /\ v.LowerBound = <<0, 1>>
           /\ v.Estimate = <<0, 1>>
           /\ v.UpperBound = <<0, 1>>

\* C10: calculateStatistics has returned for a label without samples.
C10_StatisticsOfNothing ==
    /\ result.fn = "calculateStatistics"
    /\ sampleCounters[result.op] = 0
    /\ samples[result.op] = << >>
    /\ result.value.Count = 0

\* C11: for samples whose times all equal v microseconds, v > 0,
\* calculateStatistics returns Mean = v, StdDev = 0, Median = v, MAD = 0 and
\* Throughput = 1,000,000 / v; three samples of 1000 microseconds give 1000.
C11_ConstantSamples ==
    (/\ result.fn = "calculateStatistics"
     /\ Len(samples[result.op]) > 0
     /\ \A i \in 1..Len(samples[result.op]) :
            /\ samples[result.op][i].TotalTime \div 1000 > 0
            /\ samples[result.op][i].TotalTime \div 1000 =
                   samples[result.op][1].TotalTime \div 1000) =>
        LET v == samples[result.op][1].TotalTime \div 1000
            r == result.value
        IN  /\ r.Mean = <<v, 1>>
            /\ r.StdDev = <<0, 1>>
            /\ r.Median = <<v, 1>>
            /\ r.MAD = <<0, 1>>
            /\ r.Throughput = Rat(1000000, v)
            /\ v = 1000 => r.Throughput = <<1000, 1>>

\* C11: the statistics of three samples of 1000 microseconds, with a
\* throughput of 1000 operations per second.
C11_ThreeOfOneMillisecond ==
    /\ result.fn = "calculateStatistics"
    /\ Len(samples[result.op]) = 3
    /\ \A i \in 1..3 : samples[result.op][i].TotalTime = 1000000
    /\ result.value.Mean = <<1000, 1>>
    /\ result.value.Throughput = <<1000, 1>>

\* The squared correlation of the 1-based position and the time in
\* microseconds, from the deviations from the two means.
SquaredCorrelation(smp) ==
    LET n == Len(smp)
        us == [i \in 1..n |-> <<smp[i].TotalTime \div 1000, 1>>]
        meanX == Rat(n + 1, 2)
        meanY == RatDiv(SumOf(us), <<n, 1>>)
        dx == [i \in 1..n |-> RatSub(<<i, 1>>, meanX)]
        dy == [i \in 1..n |-> RatSub(us[i], meanY)]
        cov == SumOf([i \in 1..n |-> RatMul(dx[i], dy[i])])
        vx == SumOf([i \in 1..n |-> RatMul(dx[i], dx[i])])
        vy == SumOf([i \in 1..n |-> RatMul(dy[i], dy[i])])
    IN  RatDiv(RatMul(cov, cov), RatMul(vx, vy))

\* C12: calculateR2 returns 1.0 for fewer than 2 samples, 1.0 (and no NaN of
\* a division by zero) when all times are equal, and otherwise the squared
\* correlation of position and time; the value is always within [0, 1].
C12_R2IsSquaredCorrelation ==
    result.fn = "calculateR2" =>
        LET smp == samples[result.op]
            n == Len(smp)
            v == result.value
            constant == \A i \in 1..n :
                            smp[i].TotalTime \div 1000 = smp[1].TotalTime \div 1000
        IN  /\ v[2] > 0
            /\ RatLeq(<<0, 1>>, v) /\ RatLeq(v, <<1, 1>>)
            /\ n < 2 => v = <<1, 1>>
            /\ constant => v = <<1, 1>>
            /\ (n >= 2 /\ ~constant) => v = SquaredCorrelation(smp)

\* C12: calculateR2 of three samples whose times are not equal, strictly
\* between 0 and 1.
C12_PartialFit ==
    /\ result.fn = "calculateR2"
    /\ Len(samples[result.op]) = 3
    /\ RatLess(<<0, 1>>, result.value)
    /\ RatLess(result.value, <<1, 1>>)
    /\ result.value = SquaredCorrelation(samples[result.op])

\* C13: for samples that are not empty, whatever the resampling draws, the
\* interval reported for a statistic (throughput, mean, standard deviation,
\* median, MAD, R2) has LowerBound <= Estimate <= UpperBound.
C13_EstimateWithinInterval ==
    (/\ result.fn \in {"bootstrapResample", "r2CI"}
     /\ Len(samples[result.op]) > 0) =>
        /\ FloatLeq(result.value.LowerBound, result.value.Estimate)
        /\ FloatLeq(result.value.Estimate, result.value.UpperBound)

\* C13: an R2 interval from resampling whose upper bound is below the
\* estimate.
C13_EstimateAboveUpperBound ==
    /\ result.fn = "r2CI"
    /\ result.resampled
    /\ RatLeq(result.value.LowerBound, result.value.UpperBound)
    /\ RatLess(result.value.UpperBound, result.value.Estimate)

\* C14: with 1 to 10 samples PrintStatistics does not resample R2 and the R2
\* interval has calculateR2 of the samples on its three fields; with 11
\* samples or more the estimate is the same and the bounds are percentiles of
\* the R2 of the resamples (1000 in the code, R2Resamples here).
C14_R2IntervalThreshold ==
    result.fn = "r2CI" =>
        LET smp == samples[result.op]
            v == result.value
        IN  /\ Len(smp) >= 1
            /\ v.Estimate = calculateR2(smp)
            /\ Len(smp) < 11 =>
                   /\ ~result.resampled
                   /\ result.turns = 0
                   /\ v.LowerBound = v.Estimate
                   /\ v.UpperBound = v.Estimate
            /\ Len(smp) >= 11 =>
                   /\ result.resampled
                   /\ result.turns = R2Resamples
                   /\ RatLeq(v.LowerBound, v.UpperBound)

\* C14: the R2 interval of ten samples whose R2 is neither 0 nor 1.
C14_TenSamples ==
    /\ result.fn = "r2CI"
    /\ Len(samples[result.op]) = 10
    /\ ~result.resampled
    /\ RatLess(<<0, 1>>, result.value.Estimate)
    /\ RatLess(result.value.Estimate, <<1, 1>>)
    /\ result.value.LowerBound = result.value.UpperBound

\* The matching lines of an output that are not the TOTAL line, in order.
OperationLines(out) ==
    SelectSeq(out, LAMBDA line : /\ Len(FindStringSubmatch(line)) > 0
                                 /\ line.first # "TOTAL")

HasTotalLine(out) ==
    \E i \in 1..Len(out) :
        Len(FindStringSubmatch(out[i])) > 0 /\ out[i].first = "TOTAL"

\* C15: in the table FormatMetricsTable prints, the TOTAL row comes after
\* every other row wherever the TOTAL line stood in the measurement output,
\* the other rows are those of the other matching lines in input order, and
\* the TOTAL row's Total(ms) shows the sum of the TotalTime of every
\* operation the tracker holds.
C15_TotalRowLast ==
    fpc = "done" =>
        LET others == OperationLines(output)
            n == Len(printed)
        IN  /\ \A i \in 1..n : printed[i].op = "TOTAL" => i = n
            /\ HasTotalLine(output) => n > 0 /\ printed[n].op = "TOTAL"
            /\ n = Len(others) + (IF HasTotalLine(output) THEN 1 ELSE 0)
            /\ \A i \in 1..Len(others) : printed[i].op = others[i].first
            /\ HasTotalLine(output) =>
                   printed[n].totalMs =
                       Ms(Microseconds(SumTotalTime(timings, DOMAIN timings)))

\* C15 witness: the TOTAL line came first of three, its row is printed third,
\* and it shows the microsecond two tracked operations took together.
C15_TotalLineFirst ==
    /\ fpc = "done"
    /\ Len(output) = 3
    /\ output[1] = StatsLine("TOTAL")
    /\ Len(printed) = 3
    /\ printed[3].op = "TOTAL"
    /\ printed[3].totalMs = Ms(1)
    /\ Cardinality(DOMAIN timings) = 2

\* C16: a line that does not match the pattern adds no row, every matching
\* line other than TOTAL adds exactly one row carrying its own fields, and
\* the row of an operation the tracker has no timing for shows "N/A".
C16_UnmatchedLinesSkipped ==
    fpc \in {"scan", "done"} =>
        LET others == OperationLines(SubSeq(output, 1, scanned))
        IN  /\ Len(rows) = Len(others)
            /\ \A i \in 1..Len(others) :
                   /\ rows[i].op = others[i].first
                   /\ rows[i].count = others[i].vals[2]
                   /\ rows[i].max = others[i].vals[6]
                   /\ rows[i].op \notin DOMAIN timings <=> rows[i].totalMs = NA
            /\ fpc = "done" => scanned = Len(output) /\ SubSeq(printed, 1, Len(rows)) = rows

\* C16 witness: an output of a cut-off line, a line of an untracked
\* operation and a line of a tracked one has been printed as two rows.
C16_CutOffAndUntracked ==
    /\ fpc = "done"
    /\ output = <<ShortLine("READ"), StatsLine("READ_ERROR"), StatsLine("READ")>>
    /\ Len(printed) = 2
    /\ printed[1].totalMs = NA
    /\ printed[2].totalMs # NA

\* The name the tests look for: the label and "sample_times.png".
ExpectedName(operation) == <<operation, "sample_times.png">>

\* C17: once GeneratePlots has returned nil, every label with at least one
\* sample has a file named "<label>_sample_times.png" in the directory.
C17_PlotFileNamed ==
    pret = "nil" =>
        \A op \in PlotLabels :
            Len(samples[op]) > 0 => ExpectedName(op) \in files

\* C17 witness: GeneratePlots returned nil after READ's single sample was
\* plotted without a warning, and the file it wrote carries a timestamp.
C17_TimestampInName ==
    /\ pret = "nil"
    /\ Len(samples["READ"]) = 1
    /\ warnings = {}
    /\ FileName("READ", Timestamp) \in files
    /\ ExpectedName("READ") \notin files

\* C18: GeneratePlots returns an error exactly when the output directory
\* could not be created; with no samples it returns nil and writes nothing;
\* labels without samples get neither a plot nor a warning; a label whose
\* plot failed gets a warning, every other label with samples still gets its
\* plot, and nil is returned.
C18_OnlyDirectoryFailureIsAnError ==
    ppc = "done" =>
        /\ pret \in {"nil", "err"}
        /\ pret = "err" => files = {} /\ warnings = {} /\ todo = {}
        /\ pret = "nil" =>
              \A op \in PlotLabels :
                  LET plotted == \E f \in files : f[1] = op
                  IN  IF Len(samples[op]) = 0
                      THEN ~plotted /\ op \notin warnings
                      ELSE plotted <=> op \notin warnings

\* C18 witness: READ's plot failed with a warning, UPDATE's plot was still
\* written and GeneratePlots returned nil.
C18_WarningAndPlot ==
    /\ ppc = "done"
    /\ pret = "nil"
    /\ warnings = {"READ"}
    /\ FileName("UPDATE", Timestamp) \in files

\* The value the last -p argument for a key gives it, in a list of valid
\* arguments; the empty sequence if none names the key.
RECURSIVE LastValueFor(_, _, _)
LastValueFor(pvalues, key, i) ==
    IF i = 0 THEN << >>
    ELSE IF pvalues[i][1] = key THEN SubSeq(pvalues[i], 3, Len(pvalues[i]))
    ELSE LastValueFor(pvalues, key, i - 1)

\* C19: the workload and the DB are created with the -p value of every key
\* that was set with -p, whatever the workload file and the -P file hold.
C19_CommandLineOverrides ==
    opc = "created" =>
        \A i \in 1..Len(flags.propertyValues) :
            LET key == flags.propertyValues[i][1]
            IN  /\ key \in DOMAIN effective
                /\ effective[key] =
                       LastValueFor(flags.propertyValues, key,
                                    Len(flags.propertyValues))

\* C19 witness: -p recordcount=10000 was given with a workload file that
\* sets recordcount=1000, and the workload was created with 1000.
C19_WorkloadFileWins ==
    /\ opc = "created"
    /\ flags.propertyValues = <<<<"recordcount", "=", "10000">>>>
    /\ "recordcount" \in DOMAIN flags.workloadFile
    /\ flags.workloadFile["recordcount"] = <<"1000">>
    /\ effective["recordcount"] = <<"1000">>

\* C20, as stated: a Record call with a latency above 60e9 ns returns with
\* the latency dropped (the histograms are as they were) or clamped (the
\* kind's total count is one more and no slot above that of 60e9 ns has
\* changed).
C20_AboveMaximumDroppedOrClamped ==
    (cpc[1] = "return" /\ IsRecord(ccall[1])
        /\ ccall[1].latency > HighestTrackableValue) =>
        LET k == ccall[1].kind
            old == pre[1].latencyHist
        IN  \/ latencyHist = old
            \/ /\ TotalCount(latencyHist[k]) = TotalCount(old[k]) + 1
               /\ \A s \in Slots :
                      s > countsIndexFor(HighestTrackableValue) =>
                          latencyHist[k].counts[s] = old[k].counts[s]

\* C20, amended: every Record call returns with its kind counted once more
\* and the other kinds' histograms as they were; a latency of 2^36 ns or more
\* leaves the kind's histogram as it was, and any smaller latency, also one
\* above 60e9 ns and also after a refused one, is entered in its own slot.
C20_RefusedLatencySilent ==
    (cpc[1] = "return" /\ IsRecord(ccall[1])) =>
        LET k == ccall[1].kind
            l == ccall[1].latency
            old == pre[1].latencyHist
        IN  /\ count[k] = pre[1].count[k] + 1
            /\ \A j \in Kinds \ {k} : latencyHist[j] = old[j]
            /\ IF l >= HistogramLimit
               THEN latencyHist[k] = old[k]
               ELSE latencyHist[k] =
                        [old[k] EXCEPT !.counts[countsIndexFor(l)] = @ + 1,
                                       !.totalCount = @ + 1]

\* C20 witness: after a latency of 2^36 ns was refused for a kind, a latency
\* above 60e9 ns has been entered in the kind's histogram.
C20_RecordedAfterRefused ==
    /\ cpc[1] = "return"
    /\ IsRecord(ccall[1])
    /\ ccall[1].latency = 65535
    /\ returned[ccall[1].kind] = 1
    /\ accepted[ccall[1].kind] = 0
    /\ TotalCount(latencyHist[ccall[1].kind]) = 1

\* C21: under fair scheduling every track call whose delegate has returned
\* gets the lock, appends its sample and releases the lock, whatever the
\* other worker does and even if the other worker's delegate never returns;
\* no worker is in its delegate call while it holds the lock.
C21_TrackCompletes ==
    /\ [](\A t \in Threads : tpc[t] = "delegate" => mu # t)
    /\ \A t \in Threads :
           /\ (tpc[t] = "lock") ~> (tpc[t] = "unlock" /\ mu = t)
           /\ (tpc[t] = "unlock") ~> (tpc[t] = "idle" /\ mu # t)

\* C21 witness: worker 1 has completed a tracked call, its sample stored and
\* the lock free, while worker 2 is still inside its delegate call.
C21_CompletedBesideBlockedDelegate ==
    /\ tpc[1] = "idle"
    /\ tpc[2] = "delegate"
    /\ mu = 0
    /\ \E op \in FairLabels : completed[op] = 1 /\ Len(samples[op]) = 1

\* C22: the sample store is append-only: every step of a run, whether of a
\* tracked call, AddSample, FormatMetricsTable, GeneratePlots or the
\* statistics, leaves the samples stored for every label in place, in order
\* and unmodified, as a prefix of the label's sequence after the step.
C22_SamplesAppendOnly ==
    [][\A op \in Labels :
           /\ Len(samples[op]) <= Len(samples'[op])
           /\ SubSeq(samples'[op], 1, Len(samples[op])) = samples[op]]_vars

\* C22 witness: two samples are stored for READ after the table was printed,
\* the plots were generated and a bootstrap of the samples has ended.
C22_StoreAfterWholeRun ==
    /\ fpc = "done"
    /\ ppc = "done"
    /\ result # NoResult
    /\ result.fn = "bootstrapResample"
    /\ result.resampled
    /\ Len(samples["READ"]) = 2
    /\ samples["READ"][1].SampleIndex = 1
    /\ samples["READ"][2].SampleIndex = 2

\* C23: from one state to the next no kind's count, no histogram's total
\* count, nor readAmpCount nor readAmpSum decreases, and a step of
\* PrintProgress or PrintSummary changes none of them.
C23_CountersNeverDecrease ==
    [][/\ \A k \in Kinds :
              /\ count'[k] >= count[k]
              /\ TotalCount(latencyHist'[k]) >= TotalCount(latencyHist[k])
       /\ readAmpCount' >= readAmpCount
       /\ readAmpSum' >= readAmpSum
       /\ (\E t \in Threads :
               /\ cpc'[t] # cpc[t]
               /\ \/ ccall[t].fn \in {"PrintProgress", "PrintSummary"}
                  \/ ccall'[t].fn \in {"PrintProgress", "PrintSummary"}) =>
              UNCHANGED <<count, latencyHist, readAmpCount, readAmpSum>>]_vars

\* C23 witness: a worker is about to store a histogram total it computed from
\* a value loaded before two other recordings were entered: the total count
\* goes down from 2 to 1.
C23_StaleTotalAboutToBeStored ==
    \E t \in Threads :
        /\ cpc[t] = "storeTotal"
        /\ creg[t] + 1 < TotalCount(latencyHist[ccall[t].kind])

\* C24: in every R2 resample each pair of the regression is the sequence
\* index and the elapsed time of one record of the original samples.
C24_ResamplePairsKeepIndex ==
    boot.stat = "r2" =>
        \A j \in 1..Len(boot.pairs) :
            \E i \in 1..Len(BootSamples) :
                /\ boot.pairs[j][1] = BootSamples[i].SampleIndex
                /\ boot.pairs[j][2] = Microseconds(BootSamples[i].TotalTime)

\* C24 witness: the record of index 11 and 2 microseconds was drawn into
\* position 2 of a resample and the regression paired its time with 2, the
\* index of a record of 1 microsecond.
C24_TimePairedWithPosition ==
    /\ boot.stat = "r2"
    /\ Len(BootSamples) = 11
    /\ BootSamples[11] = [SampleIndex |-> 11, TotalTime |-> 2000]
    /\ BootSamples[2] = [SampleIndex |-> 2, TotalTime |-> 1000]
    /\ Len(boot.pairs) = 11
    /\ boot.pairs[2] = <<2, 2>>

\* C25: calculateMedian of a sorted sequence is its middle element when the
\* length is odd and the mean of its two middle elements when it is even;
\* calculateMAD is the median of the absolute deviations from that median,
\* unscaled: at least half of the deviations are not above it, at least half
\* are not below it, and it is one of them (odd length) or the mean of two of
\* them (even length); both are 0 for an empty sequence.
C25_MedianAndMAD ==
    result.fn = "calculateMedian" =>
        LET sorted == SortFloat64s(TimesOf(samples[result.op]))
            n == Len(sorted)
            med == result.value.Median
            mad == result.value.MAD
            dev == [i \in 1..n |-> RatAbs(RatSub(sorted[i], med))]
        IN  /\ n = 0 => med = Zero /\ mad = Zero
            /\ n % 2 = 1 => med = sorted[(n + 1) \div 2]
            /\ (n > 0 /\ n % 2 = 0) =>
                   RatMul(med, Float(2)) =
                       RatAdd(sorted[n \div 2], sorted[n \div 2 + 1])
            /\ n > 0 =>
                   /\ 2 * Cardinality({i \in 1..n : RatLeq(dev[i], mad)}) >= n
                   /\ 2 * Cardinality({i \in 1..n : RatLeq(mad, dev[i])}) >= n
            /\ n % 2 = 1 => \E i \in 1..n : dev[i] = mad
            /\ (n > 0 /\ n % 2 = 0) =>
                   \E i, j \in 1..n :
                       i # j /\ RatMul(mad, Float(2)) = RatAdd(dev[i], dev[j])

\* C25 witness: for the two times 0 and 1000 microseconds the median is 500
\* and the MAD is 500.
C25_MedianOfTwo ==
    /\ result.fn = "calculateMedian"
    /\ Len(samples[result.op]) = 2
    /\ result.value.Median = <<500, 1>>
    /\ result.value.MAD = <<500, 1>>

\* v is the element at 0-based index idx of the values in ascending order.
IsOrderStatistic(v, values, idx) ==
    /\ \E k \in 1..Len(values) : values[k] = v
    /\ Cardinality({k \in 1..Len(values) : ~FloatLeq(v, values[k])}) <= idx
    /\ Cardinality({k \in 1..Len(values) : FloatLeq(values[k], v)}) > idx

\* The times in microseconds of the samples of a label.
MicrosecondsOf(op) ==
    [i \in 1..Len(samples[op]) |-> <<samples[op][i].TotalTime \div 1000, 1>>]

\* C26: in bootstrapResample every resample statistic is the statistic of a
\* sequence as long as the input made of values of the input, the estimate is
\* the statistic of the original values, the bounds are the elements at
\* indices floor(B * 0.025) and min(floor(B * 0.975), B - 1) of the sorted
\* resample statistics, and LowerBound <= UpperBound.
C26_PercentileBootstrap ==
    /\ [](boot.stat \in StatNames =>
            LET times == MicrosecondsOf(boot.op)
                values == {times[i] : i \in 1..Len(times)}
            IN  /\ boot.estimate = StatFunc(boot.stat, times)
                /\ \A k \in 1..Len(boot.bootstrapStats) :
                       \E r \in [1..Len(times) -> values] :
                           boot.bootstrapStats[k] = StatFunc(boot.stat, r))
    /\ []((result.fn = "bootstrapResample" /\ result.resampled) =>
            /\ FloatLeq(result.value.LowerBound, result.value.UpperBound)
            /\ result.value.Estimate =
                   StatFunc(result.stat, MicrosecondsOf(result.op)))
    /\ [][(boot.stat \in StatNames /\ boot' = NoBoot) =>
            LET B == Len(boot.bootstrapStats)
                lower == (B * 25) \div 1000
                upper == IF (B * 975) \div 1000 < B - 1
                         THEN (B * 975) \div 1000 ELSE B - 1
            IN  /\ B = NumResamples
                /\ IsOrderStatistic(result'.value.LowerBound,
                                    boot.bootstrapStats, lower)
                /\ IsOrderStatistic(result'.value.UpperBound,
                                    boot.bootstrapStats, upper)]_vars

\* C26 witness: a bootstrap of the mean of samples of 0 and 1000 microseconds
\* has ended with its lower bound below its upper bound.
C26_BoundsApart ==
    /\ result.fn = "bootstrapResample"
    /\ result.resampled
    /\ result.stat = "mean"
    /\ ~FloatLeq(result.value.UpperBound, result.value.LowerBound)

\* timings[op].TotalTime, 0 for a label never tracked.
TimingTotal(op) == IF op \in DOMAIN timings THEN timings[op].TotalTime ELSE 0

RECURSIVE SumOfSampleTimes(_)
SumOfSampleTimes(smp) ==
    IF smp = << >> THEN 0
    ELSE Head(smp).TotalTime + SumOfSampleTimes(Tail(smp))

\* C27: whenever no thread holds the tracker lock, the TotalTime of every
\* label's timing is the sum of the TotalTime of the label's samples; and a
\* step changes the count, the cumulative time, the sample counter or the
\* samples of a label only if the holder of the lock is tracking that label.
C27_TimingIsSumOfSamples ==
    /\ [](mu = 0 =>
            \A op \in Labels :
                /\ TimingTotal(op) = SumOfSampleTimes(samples[op])
                /\ TimingCount(op) = Len(samples[op]))
    /\ [][\A op \in Labels :
              (\/ TimingCount(op)' # TimingCount(op)
               \/ TimingTotal(op)' # TimingTotal(op)
               \/ sampleCounters'[op] # sampleCounters[op]
               \/ samples'[op] # samples[op]) =>
                  \E t \in Threads : mu = t /\ tcall[t].op = op]_vars

\* C27 witness: two tracked READ calls of 500 ns each have returned; READ's
\* cumulative time is 1000 ns and the lock is free.
C27_TwoCallsSummed ==
    /\ mu = 0
    /\ "READ" \in DOMAIN timings
    /\ timings["READ"].Count = 2
    /\ timings["READ"].TotalTime = 1000
    /\ Len(samples["READ"]) = 2

\* C28: the elapsed time of a tracked call is the time from the start taken
\* before the delegate call to the entry into track; it is fixed from then
\* on, and it is that value, with nothing of the time spent waiting for the
\* lock, that is added to the label's TotalTime and stored as the sample.
C28_LockWaitNotMeasured ==
    [][\A t \in Threads :
          /\ (tpc[t] = "delegate" /\ tpc'[t] = "lock") =>
                 tcall'[t].elapsed = (now - tcall[t].start) * TickNs
          /\ (tpc[t] \in {"lock", "timing", "addSample"} /\ tpc'[t] # "idle") =>
                 tcall'[t].elapsed = tcall[t].elapsed
          /\ (tpc[t] = "timing" /\ tpc'[t] = "addSample") =>
                 TimingTotal(tcall[t].op)' =
                     TimingTotal(tcall[t].op) + tcall[t].elapsed
          /\ (tpc[t] = "addSample" /\ tpc'[t] = "unlock") =>
                 LET smp == samples'[tcall[t].op]
                 IN  /\ Len(smp) = Len(samples[tcall[t].op]) + 1
                     /\ smp[Len(smp)].TotalTime = tcall[t].elapsed]_vars

\* C28 witness: a call whose delegate returned at once has stored a sample of
\* 0 ns and added 0 ns to its label although the clock ticked before the call
\* got through the lock.
C28_TickWhileWaiting ==
    \E t \in Threads :
        /\ tpc[t] = "unlock"
        /\ tcall[t].start = 0
        /\ tcall[t].elapsed = 0
        /\ now = 1
        /\ samples[tcall[t].op][Len(samples[tcall[t].op])].TotalTime = 0
        /\ \E op \in Labels : completed[op] = 1

\* C29: for samples the tracker has stored, the mean elapsed time in whole
\* microseconds is above 0 and the Throughput of calculateStatistics and of
\* the throughput bootstrap is a finite number.
C29_ThroughputFinite ==
    /\ (result.fn = "calculateStatistics" /\ Len(samples[result.op]) > 0) =>
           /\ RatLess(Zero, result.value.Mean)
           /\ result.value.Throughput[2] > 0
    /\ (/\ result.fn = "bootstrapResample"
        /\ result.stat = "throughput"
        /\ result.resampled) =>
           /\ result.value.Estimate[2] > 0
           /\ result.value.LowerBound[2] > 0
           /\ result.value.UpperBound[2] > 0

\* C29 witness: calculateStatistics of two samples stored by tracked calls
\* that each lasted less than a microsecond: the mean is 0 microseconds and
\* Throughput is 1/0, +Inf.
C29_ThroughputInfinite ==
    /\ result.fn = "calculateStatistics"
    /\ completed[result.op] = 2
    /\ Len(samples[result.op]) = 2
    /\ result.value.Mean = Zero
    /\ result.value.Throughput = <<1, 0>>

\* C30: every Total(ms) the table shows is that of the timings as they were
\* when FormatMetricsTable held the tracker lock, whatever tracked calls
\* complete afterwards: the row of a label shows that label's TotalTime of
\* then, and the TOTAL row shows the sum of the TotalTime of then.
C30_TableShowsSnapshot ==
    fpc = "done" =>
        \A i \in 1..Len(printed) :
            LET op == printed[i].op IN
            /\ op \in DOMAIN timingData =>
                   printed[i].totalMs = Ms(timingData[op].TotalTime \div 1000)
            /\ op = "TOTAL" =>
                   printed[i].totalMs =
                       Ms(SumTotalTime(timingData, DOMAIN timingData) \div 1000)

\* C30 witness: READ had taken 0 ns in all when the lock was held; a READ
\* call of one microsecond completed before the rows were made, and the table
\* shows 0.001 ms for READ.
C30_LaterCallShown ==
    /\ fpc = "done"
    /\ Len(printed) = 2
    /\ printed[1].op = "READ"
    /\ "READ" \in DOMAIN timingData
    /\ timingData["READ"].TotalTime = 0
    /\ printed[1].totalMs = Ms(1)

====
